---------------------------- MODULE Spec2Model ----------------------------
(***************************************************************************)
(* State-machine model of the STM32 tools extension: the project           *)
(* configuration store (ConfigManager), the Makefile generator, the        *)
(* project, build, flash, connection and monitor managers, and the files,  *)
(* terminals and timers they work with.                                    *)
(*                                                                         *)
(* JavaScript values are encoded as sequences of strings so that values of *)
(* different JavaScript types can be compared: a string s is <<"s", s>>,   *)
(* null is <<"null">>, a boolean is <<"b", "true">> or <<"b", "false">>,   *)
(* a number is <<"n", digits>>, an array of strings is <<"a">> \o items.   *)
(* Objects are functions from property names to values.  The Cyrillic      *)
(* literals of the source (button labels, Makefile comments) are written   *)
(* in ASCII here.                                                          *)
(***************************************************************************)
EXTENDS Integers, Sequences, FiniteSets, TLC

VARIABLES
    currentPlatform,   \* ConfigManager.currentPlatform
    workspacePath,     \* "ws" when a workspace folder is open, "none" for null
    projectConfig,     \* ConfigManager.projectConfig (the current object)
    iocConfig,         \* ConfigManager.iocConfig (parsed descriptor or NoIOC)
    configFile,        \* <workspace>/.stm32-config.json
    iocFiles,          \* the *.ioc files of the workspace root, readdir order
    disk,              \* whether writing .stm32-config.json succeeds
    cppProps,          \* <workspace>/.vscode/c_cpp_properties.json
    ldFiles,           \* linker scripts in the workspace, enumeration order
    startupFiles,      \* startup assembly files in the workspace
    makefile,          \* <workspace>/Makefile
    now,               \* the wall clock read by new Date()
    buildCall,         \* the BuildManager.build call in flight, and the last one
    makefileCheck,     \* what the last checkMakefile() call returned
    lastOp,            \* history: the last operation and what it returned
    roundTrip,         \* history: progress of a load / save / load sequence
    renders,           \* history: generateContent calls, as <<arguments, text>>
    devices,           \* the serial devices of the host, in listing order
    monitor,           \* MonitorManager's fields and the terminals of the window
    flash,             \* FlashManager.flashHistory and .stm32-flash-history.json
    polling,           \* ConnectionManager's port monitoring timer and its polls
    result             \* history: what the last resolver call returned

vars == <<currentPlatform, workspacePath, projectConfig, iocConfig, configFile,
          iocFiles, disk, cppProps, ldFiles, startupFiles, makefile, now, buildCall,
          makefileCheck, lastOp, roundTrip, renders, devices, monitor, flash, polling,
          result>>

---------------------------------------------------------------------------
(* JavaScript values *)

Str(s) == <<"s", s>>
Null == <<"null">>
Undefined == <<"undefined">>
NaN == <<"NaN">>
Bool(b) == <<"b", IF b THEN "true" ELSE "false">>
Num(digits) == <<"n", digits>>
Arr(items) == <<"a">> \o items

IsArr(v) == Len(v) >= 1 /\ v[1] = "a"
Items(v) == Tail(v)

\* JavaScript truthiness, as used by `||`, `!` and `if (x)`.
Truthy(v) ==
    v \notin {Null, Undefined, NaN, Bool(FALSE), Str(""), Num("0")}

\* obj[key] of a JavaScript object: undefined for a missing property.
Get(obj, key) == IF key \in DOMAIN obj THEN obj[key] ELSE Undefined

\* obj[key] = value
Put(obj, key, value) ==
    [k \in DOMAIN obj \cup {key} |-> IF k = key THEN value ELSE obj[k]]

\* { ...a, ...b }
Spread(a, b) ==
    [k \in DOMAIN a \cup DOMAIN b |-> IF k \in DOMAIN b THEN b[k] ELSE a[k]]

EmptyObject == [k \in {} |-> Null]

---------------------------------------------------------------------------
(* Strings as character sequences, for String.prototype.includes *)

\* The characters of a string.
Chars(s) == [i \in 1..Len(s) |-> SubSeq(s, i, i)]

\* The string of a character sequence.
RECURSIVE Join(_)
Join(cs) == IF cs = <<>> THEN "" ELSE Head(cs) \o Join(Tail(cs))

Digits == {"0", "1", "2", "3", "4", "5", "6", "7", "8", "9"}
UpperLetters ==
    <<"A", "B", "C", "D", "E", "F", "G", "H", "I", "J", "K", "L", "M",
      "N", "O", "P", "Q", "R", "S", "T", "U", "V", "W", "X", "Y", "Z">>
LowerLetters ==
    <<"a", "b", "c", "d", "e", "f", "g", "h", "i", "j", "k", "l", "m",
      "n", "o", "p", "q", "r", "s", "t", "u", "v", "w", "x", "y", "z">>
IsUpper(c) == \E i \in DOMAIN UpperLetters : UpperLetters[i] = c

\* String.prototype.toLowerCase / toUpperCase on a character sequence.
toLowerCase(cs) ==
    [i \in DOMAIN cs |->
        IF IsUpper(cs[i])
        THEN LowerLetters[CHOOSE k \in DOMAIN UpperLetters : UpperLetters[k] = cs[i]]
        ELSE cs[i]]
toUpperCase(cs) ==
    [i \in DOMAIN cs |->
        IF \E k \in DOMAIN LowerLetters : LowerLetters[k] = cs[i]
        THEN UpperLetters[CHOOSE k \in DOMAIN LowerLetters : LowerLetters[k] = cs[i]]
        ELSE cs[i]]

\* cs.indexOf(sub) + 1: the first position where sub occurs, 0 when none.
IndexOf(cs, sub) ==
    LET at == {i \in 1..(Len(cs) + 1) :
                  /\ i + Len(sub) - 1 <= Len(cs)
                  /\ SubSeq(cs, i, i + Len(sub) - 1) = sub}
    IN  IF at = {} THEN 0 ELSE CHOOSE i \in at : \A j \in at : i <= j

\* cs.replace(sub, by) with a string pattern: the first occurrence only.
ReplaceFirst(cs, sub, by) ==
    LET i == IndexOf(cs, sub)
    IN  IF i = 0 THEN cs
        ELSE SubSeq(cs, 1, i - 1) \o by \o SubSeq(cs, i + Len(sub), Len(cs))

\* cs.replace(/\.\./g, '.'): every pair of dots, left to right.
RECURSIVE ReplaceDotPairs(_)
ReplaceDotPairs(cs) ==
    IF Len(cs) < 2 THEN cs
    ELSE IF cs[1] = "." /\ cs[2] = "."
    THEN <<".">> \o ReplaceDotPairs(SubSeq(cs, 3, Len(cs)))
    ELSE <<cs[1]>> \o ReplaceDotPairs(Tail(cs))

\* cs.replace(/\d+$/, ''): the trailing digits removed.
StripTrailingDigits(cs) ==
    LET keep == {i \in DOMAIN cs : cs[i] \notin Digits}
    IN  IF keep = {} THEN <<>>
        ELSE SubSeq(cs, 1, CHOOSE i \in keep : \A j \in keep : j <= i)

\* path.basename(p): what follows the last separator.
Basename(cs) ==
    LET seps == {i \in DOMAIN cs : cs[i] = "/"}
    IN  IF seps = {} THEN cs
        ELSE SubSeq(cs, 1 + (CHOOSE i \in seps : \A j \in seps : j <= i), Len(cs))

EndsWith(cs, suffix) ==
    /\ Len(suffix) <= Len(cs)
    /\ SubSeq(cs, Len(cs) - Len(suffix) + 1, Len(cs)) = suffix

\* path.basename(p, ext): the extension is removed when the name ends with
\* it and is longer than it.
BasenameExt(cs, ext) ==
    LET base == Basename(cs)
    IN  IF EndsWith(base, ext) /\ Len(base) > Len(ext)
        THEN SubSeq(base, 1, Len(base) - Len(ext))
        ELSE base

\* An includes that does not tell upper case from lower case.
IncludesIgnoringCase(s, sub) ==
    LET cs == toUpperCase(Chars(s))
        cp == toUpperCase(Chars(sub))
    IN  \E i \in 1..(Len(cs) + 1) :
            /\ i + Len(cp) - 1 <= Len(cs)
            /\ SubSeq(cs, i, i + Len(cp) - 1) = cp

\* s.includes(sub)
Includes(s, sub) ==
    LET cs == Chars(s)
        cp == Chars(sub)
    IN  \E i \in 1..(Len(cs) + 1) :
            /\ i + Len(cp) - 1 <= Len(cs)
            /\ SubSeq(cs, i, i + Len(cp) - 1) = cp

---------------------------------------------------------------------------
(* ConfigManager: defaults and the MCU parameter table *)

getDefaultProgrammerPath(platform) ==
    IF platform = "darwin"
    THEN "/Applications/STM32CubeIDE.app/Contents/Eclipse/plugins/com.st.stm32cube.ide.mcu.externaltools.cubeprogrammer.macos64_2.2.300.202508131133/tools/bin/STM32_Programmer_CLI"
    ELSE IF platform = "win32"
    THEN "C:\\Program Files\\STMicroelectronics\\STM32Cube\\STM32CubeProgrammer\\bin\\STM32_Programmer_CLI.exe"
    ELSE "/usr/local/bin/STM32_Programmer_CLI"

getDefaultGccPath(platform) ==
    IF platform = "darwin"
    THEN "/Applications/STM32CubeIDE.app/Contents/Eclipse/plugins/com.st.stm32cube.ide.mcu.externaltools.gnu-tools-for-stm32.13.3.rel1.macos64_1.0.100.202509120712/tools/bin/arm-none-eabi-gcc"
    ELSE IF platform = "win32"
    THEN "C:\\Program Files (x86)\\GNU Arm Embedded Toolchain\\10 2021.10\\bin\\arm-none-eabi-gcc.exe"
    ELSE "/usr/bin/arm-none-eabi-gcc"

getDefaultConfig(platform) ==
    LET serialPortPattern ==
            CASE platform = "win32" -> "COM*"
              [] platform = "darwin" -> "/dev/tty*usb*"
              [] platform = "linux" -> "/dev/ttyUSB*"
              [] OTHER -> "/dev/ttyUSB*"
    IN  [ projectName |-> Str("STM32F407VGT6"),
          mcu |-> Str("STM32F407VGTx"),
          mcuFamily |-> Str("STM32F4"),
          compilerLinker |-> Str("GCC"),
          stackSize |-> Str("0x400"),
          heapSize |-> Str("0x200"),
          sysClockFreq |-> Str("8000000"),
          serialPort |-> Str(serialPortPattern),
          baudRate |-> Num("115200"),
          programmerPath |-> Str(getDefaultProgrammerPath(platform)),
          gccPath |-> Str(getDefaultGccPath(platform)),
          sourceDirs |-> Arr(<<"Core/Src", "Drivers/STM32F4xx_HAL_Driver/Src">>),
          excludeFiles |-> Arr(<<>>),
          includeDirs |-> Arr(<<"Core/Inc",
                                "Drivers/STM32F4xx_HAL_Driver/Inc",
                                "Drivers/CMSIS/Include",
                                "Drivers/CMSIS/Device/ST/STM32F4xx/Include",
                                "Drivers/STM32F4xx_HAL_Driver/Inc/Legacy">>),
          autoUpdateMakefile |-> Bool(TRUE),
          preferredMonitor |-> Str("auto"),
          clearBufferOnStart |-> Bool(TRUE),
          monitorTimeout |-> Num("3000"),
          ldscript |-> Null,
          startupFile |-> Null,
          ldscriptPath |-> Null,
          startupFilePath |-> Null,
          configInitialized |-> Bool(FALSE) ]

MCUParams(cpu, fpu, floatAbi, startupFile, define, series) ==
    [cpu |-> cpu, fpu |-> fpu, floatAbi |-> floatAbi,
     startupFile |-> startupFile, define |-> define, series |-> series]

\* getMCUParams(mcuName) of a ConfigManager whose projectConfig is cfg.
\* mcuName is a JavaScript value: a string, or falsy.
getMCUParams(cfg, mcuName) ==
    LET name == IF Truthy(mcuName) THEN mcuName[2]
                ELSE IF Truthy(Get(cfg, "mcu")) THEN Get(cfg, "mcu")[2]
                ELSE "STM32F407VG"
    IN  IF Includes(name, "STM32F407")
        THEN MCUParams("-mcpu=cortex-m4", "-mfpu=fpv4-sp-d16", "-mfloat-abi=hard",
                       "startup_stm32f407xx", "STM32F407xx", "f4")
        ELSE IF Includes(name, "STM32F401")
        THEN MCUParams("-mcpu=cortex-m4", "-mfpu=fpv4-sp-d16", "-mfloat-abi=hard",
                       "startup_stm32f401xx", "STM32F401xx", "f4")
        ELSE IF Includes(name, "STM32F411")
        THEN MCUParams("-mcpu=cortex-m4", "-mfpu=fpv4-sp-d16", "-mfloat-abi=hard",
                       "startup_stm32f411xe", "STM32F411xE", "f4")
        ELSE IF Includes(name, "STM32F103")
        THEN MCUParams("-mcpu=cortex-m3", "", "",
                       "startup_stm32f103xe", "STM32F103xE", "f1")
        ELSE IF Includes(name, "STM32F303")
        THEN MCUParams("-mcpu=cortex-m4", "-mfpu=fpv4-sp-d16", "-mfloat-abi=hard",
                       "startup_stm32f303xc", "STM32F303xC", "f3")
        ELSE IF Includes(name, "STM32F030")
        THEN MCUParams("-mcpu=cortex-m0", "", "",
                       "startup_stm32f030x8", "STM32F030x8", "f0")
        ELSE IF Includes(name, "STM32G0")
        THEN MCUParams("-mcpu=cortex-m0plus", "", "",
                       "startup_stm32g071xx", "STM32G071xx", "g0")
        ELSE IF Includes(name, "STM32L4")
        THEN MCUParams("-mcpu=cortex-m4", "-mfpu=fpv4-sp-d16", "-mfloat-abi=hard",
                       "startup_stm32l476xx", "STM32L476xx", "l4")
        ELSE IF Includes(name, "STM32H7")
        THEN MCUParams("-mcpu=cortex-m7", "-mfpu=fpv5-d16", "-mfloat-abi=hard",
                       "startup_stm32h750xx", "STM32H750xx", "h7")
        ELSE MCUParams("-mcpu=cortex-m4", "-mfpu=fpv4-sp-d16", "-mfloat-abi=hard",
                       "startup_stm32f407xx", "STM32F407xx", "f4")

---------------------------------------------------------------------------
(* ConfigManager: the linker script and startup file resolvers *)

\* The length of the run of characters of `class` that starts at position k.
RunLength(cs, k, class) ==
    CHOOSE n \in 0..(Len(cs) + 1) :
        /\ k + n - 1 <= Len(cs)
        /\ \A j \in k..(k + n - 1) : class[cs[j]]
        /\ (k + n > Len(cs) \/ ~class[cs[k + n]])

\* baseName.match(/STM32(F\d+[A-Z]*[A-Z])/): the group of the leftmost
\* match, <<>> when there is none.
VariantMatch(cs) ==
    LET isDigit == [c \in {cs[i] : i \in DOMAIN cs} |-> c \in Digits]
        isUpper == [c \in {cs[i] : i \in DOMAIN cs} |-> IsUpper(c)]
        uppersAfter(i, digits) ==
            IF digits >= 1 THEN RunLength(cs, i + 6 + digits, isUpper) ELSE 0
        \* the length of the group of a match at i, 0 when none starts there
        groupAt ==
            [i \in DOMAIN cs |->
                IF i + 5 <= Len(cs) /\ SubSeq(cs, i, i + 5) = Chars("STM32F")
                THEN LET group(digits, uppers) ==
                             IF digits >= 1 /\ uppers >= 1 THEN 1 + digits + uppers
                             ELSE 0
                         from(digits) == group(digits, uppersAfter(i, digits))
                     IN  from(RunLength(cs, i + 6, isDigit))
                ELSE 0]
        leftmost(at) ==
            IF at = {} THEN <<>>
            ELSE LET pick(i) == SubSeq(cs, i + 5, i + 4 + groupAt[i])
                 IN  pick(CHOOSE i \in at : \A j \in at : i <= j)
    IN  leftmost({i \in DOMAIN cs : groupAt[i] > 0})

\* getExpectedLinkerName(mcuName), as a character sequence.
getExpectedLinkerName(mcuName) ==
    IF ~Truthy(mcuName) THEN Chars("STM32F407XX_FLASH.ld")
    ELSE LET named(variant) ==
                 IF variant # <<>>
                 THEN Chars("STM32") \o variant \o Chars("_FLASH.ld")
                 ELSE ReplaceDotPairs(Chars(mcuName[2]) \o Chars("_FLASH.ld"))
         IN  named(VariantMatch(StripTrailingDigits(Chars(mcuName[2]))))

\* What a resolver returns: null, or the name and the path of a file.
NotFound == [found |-> FALSE, name |-> "", path |-> ""]
\* A result that gives the path of the file for its name.
FoundNamedByPath(name, path) == [found |-> TRUE, name |-> path, path |-> path]
Found(name, path) == [found |-> TRUE, name |-> name, path |-> path]

\* Array.prototype.find: of the indices whose element passes the test, the
\* first, as a set of at most one index.
First(passing) ==
    {i \in passing : \A j \in passing : i <= j}

\* [...new Set(files)]
RECURSIVE Unique(_)
Unique(seq) ==
    IF seq = <<>> THEN <<>>
    ELSE LET init == Unique(SubSeq(seq, 1, Len(seq) - 1))
             last == seq[Len(seq)]
         IN  IF \E i \in DOMAIN init : init[i] = last THEN init
             ELSE Append(init, last)

IsString(v) == Len(v) = 2 /\ v[1] = "s"

\* A search that takes every file of the workspace for a linker script.
searchLinkerScriptsAnyFile(files) == Unique(files)

\* The files the patterns '**/*.ld', '**/*.LD', '**/STM32*_FLASH.ld' and
\* '**/*_FLASH.ld' find, each without '**/node_modules/**', one pattern
\* after the other and without duplicates.  files are the files of the
\* workspace, in the order a search enumerates them.
searchLinkerScripts(files) ==
    LET paths == [f \in {files[i] : i \in DOMAIN files} |-> Chars(f)]
        inProject(p) == IndexOf(p, Chars("/node_modules/")) = 0
        flashScript(b) == EndsWith(b, Chars("_FLASH.ld"))
        stm32Flash(b) ==
            flashScript(b) /\ Len(b) >= 14 /\ SubSeq(b, 1, 5) = Chars("STM32")
    IN  Unique(SelectSeq(files, LAMBDA f : inProject(paths[f])
                                            /\ EndsWith(paths[f], Chars(".ld")))
               \o SelectSeq(files, LAMBDA f : inProject(paths[f])
                                               /\ EndsWith(paths[f], Chars(".LD")))
               \o SelectSeq(files, LAMBDA f : inProject(paths[f])
                                               /\ stm32Flash(Basename(paths[f])))
               \o SelectSeq(files, LAMBDA f : inProject(paths[f]) /\ flashScript(paths[f])))

\* findLinkerScript()
findLinkerScript(cfg, ws, files) ==
    LET mcuName == Get(cfg, "mcu")
        prefers(f, expectedLdName, expectedBase) ==
            \/ Basename(f) = expectedLdName
            \/ IndexOf(f, expectedBase) # 0
        preferred(foundFiles, expectedLdName) ==
            LET among(expectedBase) ==
                    First({i \in DOMAIN foundFiles :
                              prefers(Chars(foundFiles[i]), expectedLdName, expectedBase)})
            IN  among(ReplaceFirst(expectedLdName, Chars(".ld"), <<>>))
        selected(foundFiles, preferredLd) ==
            IF preferredLd # {}
            THEN foundFiles[CHOOSE i \in preferredLd : TRUE]
            ELSE foundFiles[1]
        found(selectedLd) == Found(Join(Basename(Chars(selectedLd))), selectedLd)
        search(foundFiles) ==
            IF Len(foundFiles) = 0 THEN NotFound
            ELSE IF ~Truthy(mcuName) THEN found(selected(foundFiles, {}))
            ELSE IF ~IsString(mcuName) THEN NotFound
            ELSE found(selected(foundFiles,
                                preferred(foundFiles, getExpectedLinkerName(mcuName))))
    IN  IF ws = "none" THEN NotFound
        ELSE search(searchLinkerScripts(files))

\* The directory of the workspace folder.
WorkspaceDir == "/ws"

\* startupPaths of findStartupFile(): the standard places of the startup
\* file of an MCU.
startupPaths(mcuParams) ==
    LET dir == Chars(WorkspaceDir) \o <<"/">>
        startupFileName == Chars(mcuParams.startupFile) \o Chars(".s")
        seriesDir == Chars("STM32") \o toUpperCase(Chars(mcuParams.series)) \o Chars("xx")
        paths ==
            << dir \o startupFileName,
               dir \o Chars("Startup/") \o startupFileName,
               dir \o Chars("startups/") \o startupFileName,
               dir \o Chars("Core/Startup/") \o startupFileName,
               dir \o Chars("Drivers/CMSIS/Device/ST/") \o seriesDir
                   \o Chars("/Source/Templates/gcc/") \o startupFileName >>
    IN  [i \in 1..5 |-> Join(paths[i])]

\* The files the patterns '**/*startup*.s', '**/startup*.S',
\* '**/startup_*.s' and '**/startup_stm32<series>*.s' find, each without
\* '**/node_modules/**', one pattern after the other and without
\* duplicates.
searchStartupFiles(files, series) ==
    LET bases == [f \in {files[i] : i \in DOMAIN files} |-> Basename(Chars(f))]
        prefix == Chars("startup_stm32") \o Chars(series)
        project == SelectSeq(files, LAMBDA f : ~Includes(f, "/node_modules/"))
        starts(b, p) == Len(p) <= Len(b) /\ SubSeq(b, 1, Len(p)) = p
        pattern1(b) == /\ EndsWith(b, Chars(".s"))
                       /\ IndexOf(SubSeq(b, 1, Len(b) - 2), Chars("startup")) # 0
        pattern2(b) == EndsWith(b, Chars(".S")) /\ Len(b) >= 9 /\ starts(b, Chars("startup"))
        pattern3(b) == EndsWith(b, Chars(".s")) /\ Len(b) >= 10 /\ starts(b, Chars("startup_"))
        pattern4(b) == EndsWith(b, Chars(".s")) /\ Len(b) >= Len(prefix) + 2 /\ starts(b, prefix)
    IN  Unique(SelectSeq(project, LAMBDA f : pattern1(bases[f]))
               \o SelectSeq(project, LAMBDA f : pattern2(bases[f]))
               \o SelectSeq(project, LAMBDA f : pattern3(bases[f]))
               \o SelectSeq(project, LAMBDA f : pattern4(bases[f])))

\* findStartupFile(): files are the assembly files of the workspace, in the
\* order a search enumerates them.
findStartupFile(cfg, ws, files) ==
    LET mcuName == Get(cfg, "mcu")
        existsSync(p) == \E i \in DOMAIN files : files[i] = p
        name(p) == Join(ReplaceFirst(BasenameExt(p, Chars(".s")), Chars(".S"), <<>>))
        suits(f, startupFile, define) ==
            IndexOf(f, startupFile) # 0 \/ IndexOf(f, define) # 0
        suitable(allStartupFiles, startupFile, define) ==
            First({i \in DOMAIN allStartupFiles :
                      suits(Chars(allStartupFiles[i]), startupFile, define)})
        picked(allStartupFiles, at) ==
            IF at # {} THEN allStartupFiles[CHOOSE i \in at : TRUE]
            ELSE allStartupFiles[1]
        found(suitableFile) == Found(name(Chars(suitableFile)), suitableFile)
        globbed(allStartupFiles, mcuParams) ==
            IF Len(allStartupFiles) > 0
            THEN found(picked(allStartupFiles,
                              suitable(allStartupFiles, Chars(mcuParams.startupFile),
                                       ReplaceFirst(toLowerCase(Chars(mcuParams.define)),
                                                    Chars("xx"), <<>>))))
            ELSE NotFound
        standard(paths, at, mcuParams) ==
            IF at # {}
            THEN LET p == paths[CHOOSE i \in at : TRUE]
                 IN  Found(name(Chars(p)), p)
            ELSE globbed(searchStartupFiles(files, mcuParams.series), mcuParams)
        probe(paths, mcuParams) ==
            standard(paths, First({i \in DOMAIN paths : existsSync(paths[i])}), mcuParams)
        search(mcuParams) == probe(startupPaths(mcuParams), mcuParams)
    IN  IF ws = "none" THEN NotFound
        ELSE IF Truthy(mcuName) /\ ~IsString(mcuName) THEN NotFound
        ELSE search(getMCUParams(cfg, mcuName))

---------------------------------------------------------------------------
(* JSON text of .stm32-config.json *)

\* A file is absent, holds text that JSON.parse rejects, or holds the text
\* of a JSON object: its members <<key, value>> in the order written.
AbsentFile == [kind |-> "absent", text |-> <<>>]
InvalidFile == [kind |-> "invalid", text |-> <<>>]
TextFile(members) == [kind |-> "text", text |-> members]
Member(key, value) == [k |-> key, v |-> value]

\* Property order of a serialized projectConfig: the defaults' order, then
\* the properties the managers add.
KeyOrder ==
    << "projectName", "mcu", "mcuFamily", "compilerLinker", "stackSize",
       "heapSize", "sysClockFreq", "serialPort", "baudRate", "programmerPath",
       "gccPath", "sourceDirs", "excludeFiles", "includeDirs",
       "autoUpdateMakefile", "preferredMonitor", "clearBufferOnStart",
       "monitorTimeout", "ldscript", "startupFile", "ldscriptPath",
       "startupFilePath", "configInitialized", "defines", "autoStartMonitor",
       "showTimestamps", "editorTabSize" >>

\* JSON.parse of an object's text: a repeated key keeps its last value.
JSONParse(members) ==
    [key \in {members[i].k : i \in DOMAIN members} |->
        LET last == CHOOSE i \in DOMAIN members :
                        /\ members[i].k = key
                        /\ \A j \in DOMAIN members : j > i => members[j].k # key
        IN  members[last].v]

\* A serializer that leaves out every falsy property, not only the
\* undefined ones.
JSONStringifyOmitsFalsy(obj) ==
    LET ks == SelectSeq(KeyOrder, LAMBDA k : k \in DOMAIN obj /\ Truthy(obj[k]))
    IN  [i \in 1..Len(ks) |-> Member(ks[i], obj[ks[i]])]

\* JSON.stringify(obj, null, 2): undefined properties are left out and NaN
\* is written as null.
JSONStringify(obj) ==
    LET ks == SelectSeq(KeyOrder, LAMBDA k : k \in DOMAIN obj /\ obj[k] # Undefined)
    IN  [i \in 1..Len(ks) |->
            Member(ks[i], IF obj[ks[i]] = NaN THEN Null ELSE obj[ks[i]])]

---------------------------------------------------------------------------
(* ConfigManager: the .ioc descriptor *)

\* A line of an .ioc file, already trimmed: a comment, an empty line, a line
\* without "=" (or with "=" first), or key=value.
IocComment == [kind |-> "comment", key |-> "", value |-> ""]
IocBlank == [kind |-> "blank", key |-> "", value |-> ""]
IocNoKey == [kind |-> "nokey", key |-> "", value |-> ""]
IocLine(key, value) == [kind |-> "kv", key |-> key, value |-> value]

\* parseIOCFile(content): later lines overwrite earlier ones.
parseIOCFile(lines) ==
    LET kv == SelectSeq(lines, LAMBDA l : l.kind = "kv")
    IN  [key \in {kv[i].key : i \in DOMAIN kv} |->
            LET last == CHOOSE i \in DOMAIN kv :
                            /\ kv[i].key = key
                            /\ \A j \in DOMAIN kv : j > i => kv[j].key # key
            IN  Str(kv[last].value)]

NoIOC == [loaded |-> FALSE, map |-> EmptyObject]
LoadedIOC(map) == [loaded |-> TRUE, map |-> map]

\* The descriptor keys projected onto projectConfig, in the order tested.
IocProjection ==
    << <<"Mcu.CPN", "mcu">>,
       <<"Mcu.Name", "mcuFamily">>,
       <<"ProjectManager.CompilerLinker", "compilerLinker">>,
       <<"ProjectManager.StackSize", "stackSize">>,
       <<"ProjectManager.HeapSize", "heapSize">>,
       <<"ProjectManager.ProjectName", "projectName">>,
       <<"RCC.SYSCLKFreq_VALUE", "sysClockFreq">> >>

\* An updateConfigFromIOC() that assigns every field of the projection,
\* whether the descriptor has a value for it or not.
updateConfigFromIOCUntested(ioc, cfg) ==
    IF ~ioc.loaded THEN cfg
    ELSE [k \in DOMAIN cfg \cup {IocProjection[i][2] : i \in DOMAIN IocProjection} |->
             LET field == {i \in DOMAIN IocProjection : IocProjection[i][2] = k}
             IN  IF field # {}
                 THEN Get(ioc.map, IocProjection[CHOOSE i \in field : TRUE][1])
                 ELSE cfg[k]]

\* updateConfigFromIOC(): the projectConfig it leaves.
updateConfigFromIOC(ioc, cfg) ==
    IF ~ioc.loaded THEN cfg
    ELSE LET set == {i \in DOMAIN IocProjection :
                        Truthy(Get(ioc.map, IocProjection[i][1]))}
             field(k) == {i \in set : IocProjection[i][2] = k}
         IN  [k \in DOMAIN cfg \cup {IocProjection[i][2] : i \in set} |->
                 IF field(k) # {}
                 THEN ioc.map[IocProjection[CHOOSE i \in field(k) : TRUE][1]]
                 ELSE cfg[k]]

---------------------------------------------------------------------------
(* ConfigManager: c_cpp_properties.json *)

\* .vscode/c_cpp_properties.json: absent, text JSON.parse rejects, the text
\* "null", or the text of an object.
CppAbsent == [kind |-> "absent", obj |-> EmptyObject]
CppInvalid == [kind |-> "invalid", obj |-> EmptyObject]
CppNull == [kind |-> "null", obj |-> EmptyObject]
CppObject(obj) == [kind |-> "object", obj |-> obj]

WorkspaceFolder(paths) ==
    [i \in 1..Len(paths) |-> "${workspaceFolder}/" \o paths[i]]

\* updateCppProperties(): the file it leaves.  Its body has no await, so it
\* runs to its end inside the caller; an exception it throws rejects the
\* promise nobody awaits and leaves the file as it was.
updateCppProperties(cfg, cpp, ws, writeOk) ==
    IF ws = "none" THEN cpp
    ELSE
    LET dirs == Get(cfg, "includeDirs")
        includePaths == IF Truthy(dirs) THEN Items(dirs) ELSE <<>>
        includePath == Arr(WorkspaceFolder(includePaths))
        defs == Get(cfg, "defines")
        stm32(defines) ==
            [ name |-> Str("STM32"),
              includePath |-> includePath,
              defines |-> defines,
              compilerPath |-> IF Truthy(Get(cfg, "gccPath"))
                               THEN Get(cfg, "gccPath")
                               ELSE Str("/usr/bin/arm-none-eabi-gcc"),
              cStandard |-> Str("c11"),
              cppStandard |-> Str("c++17"),
              intelliSenseMode |-> Str("gcc-arm"),
              browsePath |-> includePath,
              browseLimitSymbols |-> Bool(TRUE) ]
        cppConfig(defines) ==
            [configurations |-> <<stm32(defines)>>, version |-> Num("4")]
        merged(defines) ==
            IF "configurations" \in DOMAIN cpp.obj /\ Len(cpp.obj.configurations) > 0
            THEN [cpp.obj EXCEPT !.configurations =
                     [@ EXCEPT ![1] = Put(Put(@, "includePath", includePath),
                                          "defines", defines)]]
            ELSE cpp.obj
        \* includePaths.map is not a function, or mcuName.includes is not
        threw == \/ Truthy(dirs) /\ ~IsArr(dirs)
                 \/ ~Truthy(defs) /\ Truthy(Get(cfg, "mcu")) /\ ~IsString(Get(cfg, "mcu"))
        existingConfig(defines) ==
            CASE cpp.kind = "absent" -> cppConfig(defines)
              [] cpp.kind = "invalid" -> EmptyObject
              [] OTHER -> merged(defines)
    IN  IF threw \/ ~writeOk THEN cpp
        \* JSON.parse gave null: reading its configurations throws inside
        \* the try block, and "null" is written back
        ELSE IF cpp.kind = "null" THEN CppNull
        ELSE CppObject(existingConfig(
                 IF Truthy(defs) THEN defs
                 ELSE Arr(<<"USE_HAL_DRIVER",
                            getMCUParams(cfg, Get(cfg, "mcu")).define>>)))

---------------------------------------------------------------------------
(* ConfigManager: load and save *)

\* The files and objects a ConfigManager operation reads and writes.
Store(cfg, file, cpp) == [cfg |-> cfg, file |-> file, cpp |-> cpp]

\* A merge in which the defaults overwrite the values of the file.
mergedConfigDefaultsWin(defaultConfig, file) ==
    IF file.kind = "text"
    THEN Spread(JSONParse(file.text), defaultConfig)
    ELSE defaultConfig

\* The object loadConfig() builds from the defaults and the file.
mergedConfig(defaultConfig, file) ==
    IF file.kind = "text"
    THEN Spread(defaultConfig, JSONParse(file.text))
    ELSE defaultConfig

\* A loadConfig() that keeps the projectConfig it had when the file cannot
\* be parsed.
loadConfigKeepsOnFailure(S, ws, platform, cppOk) ==
    IF ws = "none"
    THEN [S EXCEPT !.cfg = getDefaultConfig(platform)]
    ELSE LET loaded(cfg) ==
                 [S EXCEPT !.cfg = cfg,
                           !.cpp = updateCppProperties(cfg, S.cpp, ws, cppOk)]
         IN  loaded(IF S.file.kind = "invalid" THEN S.cfg
                    ELSE mergedConfig(getDefaultConfig(platform), S.file))

\* loadConfig()
loadConfig(S, ws, platform, cppOk) ==
    IF ws = "none"
    THEN [S EXCEPT !.cfg = getDefaultConfig(platform)]
    ELSE LET loaded(cfg) ==
                 [S EXCEPT !.cfg = cfg,
                           !.cpp = updateCppProperties(cfg, S.cpp, ws, cppOk)]
         IN  loaded(mergedConfig(getDefaultConfig(platform), S.file))

\* The text saveConfig() writes.
serializedConfig(cfg) == TextFile(JSONStringify(cfg))

\* A saveConfig() that returns true whether the file was written or not.
saveConfigReportsSuccess(S, ws, platform, writeOk, cppOk) ==
    IF ws = "none" THEN [ret |-> FALSE, S |-> S]
    ELSE IF ~writeOk THEN [ret |-> TRUE, S |-> S]
    ELSE LET written == [S EXCEPT !.file = serializedConfig(S.cfg)]
             updated(loaded) ==
                 [loaded EXCEPT
                    !.cpp = updateCppProperties(loaded.cfg, loaded.cpp, ws, cppOk)]
         IN  [ret |-> TRUE,
              S |-> updated(loadConfig(written, ws, platform, cppOk))]

\* saveConfig(): what it returns and the store it leaves.  writeOk tells
\* whether writing .stm32-config.json succeeds, cppOk whether writing
\* c_cpp_properties.json does.
saveConfig(S, ws, platform, writeOk, cppOk) ==
    IF ws = "none" THEN [ret |-> FALSE, S |-> S]
    ELSE IF ~writeOk THEN [ret |-> FALSE, S |-> S]
    ELSE LET written == [S EXCEPT !.file = serializedConfig(S.cfg)]
             updated(loaded) ==
                 [loaded EXCEPT
                    !.cpp = updateCppProperties(loaded.cfg, loaded.cpp, ws, cppOk)]
         IN  [ret |-> TRUE,
              S |-> updated(loadConfig(written, ws, platform, cppOk))]

\* loadIOCConfig(): the descriptor and projectConfig it leaves.  Only the
\* first .ioc file of the workspace root is read.
loadIOCConfig(ioc, cfg, files, ws) ==
    IF ws = "none" \/ Len(files) = 0
    THEN [ioc |-> ioc, cfg |-> cfg]
    ELSE LET parsed == LoadedIOC(parseIOCFile(files[1]))
         IN  [ioc |-> parsed, cfg |-> updateConfigFromIOC(parsed, cfg)]

---------------------------------------------------------------------------
(* MakefileGenerator *)

\* a || b
Or(a, b) == IF Truthy(a) THEN a ELSE b

RECURSIVE JoinWith(_, _)
JoinWith(items, sep) ==
    IF items = <<>> THEN ""
    ELSE IF Len(items) = 1 THEN items[1]
    ELSE items[1] \o sep \o JoinWith(Tail(items), sep)

\* The string a template literal makes of a value.
TemplateString(v) ==
    CASE v = Null -> "null"
      [] v = Undefined -> "undefined"
      [] v = NaN -> "NaN"
      [] IsArr(v) -> JoinWith(Items(v), ",")
      [] OTHER -> v[2]

\* new Date().toLocaleString() when the wall clock shows second t.
RECURSIVE Decimal(_)
Decimal(n) ==
    LET digit == <<"0", "1", "2", "3", "4", "5", "6", "7", "8", "9">>[(n % 10) + 1]
    IN  IF n < 10 THEN digit ELSE Decimal(n \div 10) \o digit
toLocaleString(t) == "11/2/2026, 12:00:" \o (IF t < 10 THEN "0" ELSE "") \o Decimal(t)

\* value.length > 0 of a JavaScript value that may lack a length.
HasLength(v) ==
    \/ IsArr(v) /\ Len(Items(v)) > 0
    \/ IsString(v) /\ Len(v[2]) > 0

\* The outcome of a call: an exception, or a value and the text produced.
Threw == [threw |-> TRUE, ret |-> FALSE, text |-> <<>>]
Returned(ret, text) == [threw |-> FALSE, ret |-> ret, text |-> text]

\* An exclusion rule that names the files without the % of a pattern.
excludeRuleExactNames(excludeFiles) ==
    IF HasLength(excludeFiles)
    THEN << "# Excluded files",
            "C_SOURCES := $(filter-out "
                \o JoinWith(Items(excludeFiles), " ")
                \o ", $(C_SOURCES))" >>
    ELSE <<>>

\* excludeRule of generateContent(): the lines that follow the source list.
excludeRule(excludeFiles) ==
    IF HasLength(excludeFiles)
    THEN << "# Excluded files",
            "C_SOURCES := $(filter-out "
                \o JoinWith([i \in 1..Len(Items(excludeFiles)) |->
                                "%" \o Items(excludeFiles)[i]], " ")
                \o ", $(C_SOURCES))" >>
    ELSE <<>>

\* generateContent(projectName, startupFile, ldscript, mcuParams,
\* projectConfig as config), called when the wall clock shows `clock`: the lines of
\* the text it returns.
generateContent(projectName, startupFile, ldscript, mcuParams, config, clock) ==
    LET excludeFiles == Get(config, "excludeFiles")
        sourceDirs == Get(config, "sourceDirs")
        includeDirs == Get(config, "includeDirs")
        joined(lines) ==
            IF lines = <<>> THEN <<"">>
            ELSE [i \in DOMAIN lines |->
                     lines[i] \o (IF i < Len(lines) THEN " \\" ELSE "")]
        sourceLines ==
            joined([i \in 1..Len(Items(sourceDirs)) |->
                       "\t$(wildcard " \o Items(sourceDirs)[i] \o "/*.c)"])
        includeLines ==
            joined([i \in 1..Len(Items(includeDirs)) |->
                       "\t-I" \o Items(includeDirs)[i]])
        text ==
            << "################################################################################",
               "# Generated automatically by STM32 Tools",
               "# Project: " \o TemplateString(projectName),
               "# MCU: " \o TemplateString(Or(Get(config, "mcu"), Str("STM32F407VG"))),
               "# Date: " \o toLocaleString(clock),
               "################################################################################",
               "",
               "TARGET = " \o TemplateString(projectName),
               "DEBUG = 1",
               "OPT = -Og",
               "BUILD_DIR = build",
               "",
               "# Source files",
               "C_SOURCES = \\" >>
            \o sourceLines
            \o excludeRule(excludeFiles)
            \o << "",
               "# Startup file",
               "ASM_SOURCES = \\",
               "\t" \o TemplateString(startupFile) \o ".s",
               "",
               "# Tools",
               "PREFIX = arm-none-eabi-",
               "CC = $(PREFIX)gcc",
               "AS = $(PREFIX)gcc -x assembler-with-cpp",
               "CP = $(PREFIX)objcopy",
               "SZ = $(PREFIX)size",
               "",
               "# MCU parameters",
               "CPU = " \o mcuParams.cpu,
               "FPU = " \o mcuParams.fpu,
               "FLOAT-ABI = " \o mcuParams.floatAbi,
               "MCU = $(CPU) -mthumb $(FPU) $(FLOAT-ABI)",
               "",
               "# Preprocessor definitions",
               "C_DEFS = \\",
               "\t-DUSE_HAL_DRIVER \\",
               "\t-D" \o mcuParams.define,
               "",
               "# Include paths",
               "C_INCLUDES = \\" >>
            \o includeLines
            \o << "",
               "# Compiler flags",
               "ASFLAGS = $(MCU) $(AS_DEFS) $(AS_INCLUDES) $(OPT) -Wall -fdata-sections -ffunction-sections",
               "CFLAGS = $(MCU) $(C_DEFS) $(C_INCLUDES) $(OPT) -Wall -fdata-sections -ffunction-sections",
               "",
               "ifeq ($(DEBUG), 1)",
               "CFLAGS += -g -gdwarf-2",
               "endif",
               "",
               "CFLAGS += -MMD -MP -MF\"$(@:%.o=%.d)\"",
               "",
               "# Linker flags",
               "LDSCRIPT = " \o TemplateString(ldscript),
               "LIBS = -lc -lm -lnosys ",
               "LDFLAGS = $(MCU) -specs=nano.specs -T$(LDSCRIPT) $(LIBS) -Wl,-Map=$(BUILD_DIR)/$(TARGET).map,--cref -Wl,--gc-sections",
               "",
               "# Main target",
               "all: $(BUILD_DIR)/$(TARGET).elf $(BUILD_DIR)/$(TARGET).hex $(BUILD_DIR)/$(TARGET).bin",
               "",
               "# Build rules",
               "OBJECTS = $(addprefix $(BUILD_DIR)/,$(notdir $(C_SOURCES:.c=.o)))",
               "vpath %.c $(sort $(dir $(C_SOURCES)))",
               "OBJECTS += $(addprefix $(BUILD_DIR)/,$(notdir $(ASM_SOURCES:.s=.o)))",
               "vpath %.s $(sort $(dir $(ASM_SOURCES)))",
               "",
               "$(BUILD_DIR)/%.o: %.c Makefile | $(BUILD_DIR) ",
               "\t$(CC) -c $(CFLAGS) -Wa,-a,-ad,-alms=$(BUILD_DIR)/$(notdir $(<:.c=.lst)) $< -o $@",
               "",
               "$(BUILD_DIR)/%.o: %.s Makefile | $(BUILD_DIR)",
               "\t$(AS) -c $(CFLAGS) $< -o $@",
               "",
               "$(BUILD_DIR)/$(TARGET).elf: $(OBJECTS) Makefile",
               "\t$(CC) $(OBJECTS) $(LDFLAGS) -o $@",
               "\t$(SZ) $@",
               "",
               "$(BUILD_DIR)/%.hex: $(BUILD_DIR)/%.elf | $(BUILD_DIR)",
               "\t$(CP) -O ihex $< $@",
               "",
               "$(BUILD_DIR)/%.bin: $(BUILD_DIR)/%.elf | $(BUILD_DIR)",
               "\t$(CP) -O binary -S $< $@",
               "",
               "$(BUILD_DIR):",
               "\tmkdir -p $@",
               "",
               "# Clean",
               "clean:",
               "\t-rm -fR $(BUILD_DIR)",
               "",
               "# Flash",
               "flash: $(BUILD_DIR)/$(TARGET).bin",
               "\tSTM32_Programmer_CLI -c port=SWD -w \"$<\" -v -rst",
               "",
               "# Dependencies",
               "-include $(wildcard $(BUILD_DIR)/*.d)" >>
    IN  IF \/ HasLength(excludeFiles) /\ ~IsArr(excludeFiles)
           \/ ~IsArr(sourceDirs)
           \/ ~IsArr(includeDirs)
        THEN Threw
        ELSE Returned(TRUE, text)

\* <workspace>/Makefile
NoMakefile == [exists |-> FALSE, text |-> <<>>]
MakefileText(text) == [exists |-> TRUE, text |-> text]

\* The linker script generate() names when the configuration names none.
FallbackLdscript == "STM32F407XX_FLASH.ld"

\* generate(): what it returns, the Makefile it leaves and the call of
\* generateContent() it made, as <<arguments, text>>.  writeOk tells whether
\* writing the Makefile succeeds.
generate(cfg, ws, old, clock, writeOk) ==
    LET mcu == Get(cfg, "mcu")
        write(arguments, content) ==
            IF content.threw
            THEN [threw |-> TRUE, ret |-> FALSE, makefile |-> old, rendered |-> <<>>]
            ELSE [threw |-> FALSE, ret |-> writeOk,
                  makefile |-> IF writeOk THEN MakefileText(content.text) ELSE old,
                  rendered |-> << <<arguments, content.text>> >>]
        render(arguments) ==
            write(arguments,
                  generateContent(arguments[1], arguments[2], arguments[3], arguments[4],
                                  arguments[5], clock))
        resolve(mcuParams) ==
            render(<< Get(cfg, "projectName"),
                      Or(Get(cfg, "startupFile"), Str(mcuParams.startupFile)),
                      Or(Get(cfg, "ldscript"), Str(FallbackLdscript)),
                      mcuParams, cfg >>)
    IN  IF ws = "none"
        THEN [threw |-> FALSE, ret |-> FALSE, makefile |-> old, rendered |-> <<>>]
        ELSE IF Truthy(mcu) /\ ~IsString(mcu)
        THEN [threw |-> TRUE, ret |-> FALSE, makefile |-> old, rendered |-> <<>>]
        ELSE resolve(getMCUParams(cfg, mcu))

\* The methods the MakefileGenerator class defines.
MakefileGeneratorMethods == {"generate", "generateContent"}

\* Calling a method an object lacks throws a TypeError.
IsNotAFunction(method) == method \notin MakefileGeneratorMethods

---------------------------------------------------------------------------
(* ConfigManager.initializeProjectConfig and the BuildManager operations *)

\* A setLinker that marks the configuration as initialized as well.
setLinkerInitialized(cfg, r) ==
    Put(Put(Put(cfg, "ldscript", Str(r.name)), "ldscriptPath", Str(r.path)),
        "configInitialized", Bool(TRUE))

\* projectConfig.ldscript = r.ldscript; projectConfig.ldscriptPath = r.ldscriptPath
setLinker(cfg, r) ==
    Put(Put(cfg, "ldscript", Str(r.name)), "ldscriptPath", Str(r.path))

\* projectConfig.startupFile = r.startupFile; ...startupFilePath = r.startupFilePath
setStartup(cfg, r) ==
    Put(Put(cfg, "startupFile", Str(r.name)), "startupFilePath", Str(r.path))

\* handleBuildError: projectConfig.ldscript = null; projectConfig.ldscriptPath = null
resetLinkerOnlyName(cfg) == Put(cfg, "ldscript", Null)
resetLinker(cfg) == Put(Put(cfg, "ldscript", Null), "ldscriptPath", Null)

\* handleBuildError: projectConfig.startupFile = null; ...startupFilePath = null
resetStartup(cfg) == Put(Put(cfg, "startupFile", Null), "startupFilePath", Null)

\* initializeProjectConfig(): what it returns and the store it leaves.
initializeProjectConfig(S, ws, platform, lds, startups, writeOk, cppOk) ==
    IF ws = "none" THEN [ret |-> FALSE, S |-> S]
    ELSE LET withLinker(ldConfig) ==
                 IF ~Truthy(Get(S.cfg, "ldscriptPath")) /\ ldConfig.found
                 THEN setLinker(S.cfg, ldConfig) ELSE S.cfg
             withStartup(c1, startupConfig) ==
                 IF ~Truthy(Get(c1, "startupFilePath")) /\ startupConfig.found
                 THEN setStartup(c1, startupConfig) ELSE c1
             locateStartup(c1) == withStartup(c1, findStartupFile(c1, ws, startups))
             c2 == locateStartup(withLinker(findLinkerScript(S.cfg, ws, lds)))
         IN  saveConfig([S EXCEPT !.cfg = Put(c2, "configInitialized", Bool(TRUE))],
                        ws, platform, writeOk, cppOk)

LinkerMissing(cfg) == ~Truthy(Get(cfg, "ldscript")) \/ ~Truthy(Get(cfg, "ldscriptPath"))
StartupMissing(cfg) == ~Truthy(Get(cfg, "startupFile")) \/ ~Truthy(Get(cfg, "startupFilePath"))

\* checkProjectFiles() up to its return or its first prompt.  `config` is
\* the object configManager.projectConfig referred to when the call began:
\* a saveConfig() that writes the file makes loadConfig() put a new object
\* in its place, and later writes through `config` go to the old object.
\* outcome is "true", or the prompt the call waits at.
checkProjectFiles(S, ws, platform, lds, startups, writeOk1, writeOk2, cppOk) ==
    LET config0 == S.cfg
        startupFound(saved1, config1, startupConfig) ==
            IF ~startupConfig.found THEN [outcome |-> "missingStartup", S |-> saved1.S]
            ELSE [outcome |-> "true",
                  S |-> saveConfig([saved1.S EXCEPT
                                      !.cfg = IF ~saved1.ret  \* still the same object
                                              THEN setStartup(config1, startupConfig)
                                              ELSE saved1.S.cfg],
                                   ws, platform, writeOk2, cppOk).S]
        startupStep(saved1, config1) ==
            IF ~StartupMissing(config1) THEN [outcome |-> "true", S |-> saved1.S]
            ELSE startupFound(saved1, config1,
                              findStartupFile(saved1.S.cfg, ws, startups))
        linked(config1) ==
            startupStep(IF LinkerMissing(config0)
                        THEN saveConfig([S EXCEPT !.cfg = config1], ws, platform,
                                        writeOk1, cppOk)
                        ELSE [ret |-> FALSE, S |-> S],
                        config1)
        linkerStep(ldConfig) ==
            IF LinkerMissing(config0) /\ ~ldConfig.found
            THEN [outcome |-> "missingLinker", S |-> S]
            ELSE linked(IF LinkerMissing(config0) THEN setLinker(config0, ldConfig)
                        ELSE config0)
    IN  linkerStep(findLinkerScript(S.cfg, ws, lds))

\* The files a '**/*.ld' or '**/*.s' search offers for a manual choice.
WithExtension(files, ext) == SelectSeq(files, LAMBDA f : EndsWith(Chars(f), Chars(ext)))

\* selectLinkerScript(): pick is the index of the chosen item, 0 when the
\* user dismisses the list.
selectLinkerScript(S, ws, platform, lds, pick, writeOk, cppOk) ==
    LET files == WithExtension(lds, ".ld")
    IN  IF ws = "none" \/ Len(files) = 0 \/ pick \notin DOMAIN files
        THEN [ret |-> FALSE, S |-> S]
        ELSE LET chosen == Found(Join(Basename(Chars(files[pick]))), files[pick])
                 r == saveConfig([S EXCEPT !.cfg = setLinker(@, chosen)], ws, platform,
                                 writeOk, cppOk)
             IN  [ret |-> TRUE, S |-> r.S]

\* selectStartupFile()
selectStartupFile(S, ws, platform, startups, pick, writeOk, cppOk) ==
    LET files == WithExtension(startups, ".s")
    IN  IF ws = "none" \/ Len(files) = 0 \/ pick \notin DOMAIN files
        THEN [ret |-> FALSE, S |-> S]
        ELSE LET startupName == Join(ReplaceFirst(BasenameExt(Chars(files[pick]), Chars(".s")),
                                                  Chars(".S"), <<>>))
                 r == saveConfig([S EXCEPT !.cfg = setStartup(@, Found(startupName, files[pick]))],
                                 ws, platform, writeOk, cppOk)
             IN  [ret |-> TRUE, S |-> r.S]

\* handleMissingLinker(): choice is the button of the warning.
handleMissingLinker(S, ws, platform, lds, choice, pick, writeOk, cppOk) ==
    LET auto(ldConfig) ==
            IF ldConfig.found
            THEN [ret |-> TRUE,
                  S |-> saveConfig([S EXCEPT !.cfg = setLinker(@, ldConfig)], ws,
                                   platform, writeOk, cppOk).S]
            ELSE [ret |-> FALSE, S |-> S]
    IN  CASE choice = "Find automatically" -> auto(findLinkerScript(S.cfg, ws, lds))
          [] choice = "Select manually" ->
                selectLinkerScript(S, ws, platform, lds, pick, writeOk, cppOk)
          [] OTHER -> [ret |-> FALSE, S |-> S]

\* handleMissingStartup()
handleMissingStartup(S, ws, platform, startups, choice, pick, writeOk, cppOk) ==
    LET auto(startupConfig) ==
            IF startupConfig.found
            THEN [ret |-> TRUE,
                  S |-> saveConfig([S EXCEPT !.cfg = setStartup(@, startupConfig)], ws,
                                   platform, writeOk, cppOk).S]
            ELSE [ret |-> FALSE, S |-> S]
    IN  CASE choice = "Find automatically" -> auto(findStartupFile(S.cfg, ws, startups))
          [] choice = "Select manually" ->
                selectStartupFile(S, ws, platform, startups, pick, writeOk, cppOk)
          [] choice = "Continue without startup" -> [ret |-> TRUE, S |-> S]
          [] OTHER -> [ret |-> FALSE, S |-> S]

\* The outcomes of the make commands of a build: 'make -j4' succeeds, or
\* fails and plain 'make' succeeds, or both fail with an error message that
\* names the linker script, the startup file, or neither.
MakeOutcomes == {"ok", "retry ok", "linker error", "startup error", "other error"}

\* cleanBuild(), executeBuild() and, when the build fails, handleBuildError():
\* the commands launched, what build() returns, and the reset the error
\* message offers.
makePhase(make) ==
    [events |-> IF make = "ok" THEN <<"make clean", "make -j4">>
                ELSE <<"make clean", "make -j4", "make">>,
     ret |-> IF make \in {"ok", "retry ok"} THEN "true" ELSE "false",
     prompts |-> CASE make = "linker error" -> {"linker"}
                   [] make = "startup error" -> {"startup"}
                   [] OTHER -> {}]

\* A build() that goes on to the make commands whatever checkProjectFiles()
\* returned.
buildAfterCheckUnconditional(configCheck, autoUpdateMakefile, make) ==
    IF autoUpdateMakefile /\ IsNotAFunction("updateMakefile")
    THEN [events |-> <<"checkProjectFiles", "updateMakefile">>, ret |-> "threw", prompts |-> {}]
    ELSE [makePhase(make) EXCEPT
            !.events = <<IF configCheck THEN "checkProjectFiles true"
                         ELSE "checkProjectFiles false">> \o @]

\* build() from the return of checkProjectFiles() on.
buildAfterCheck(configCheck, autoUpdateMakefile, make) ==
    IF ~configCheck
    THEN [events |-> <<"checkProjectFiles false">>, ret |-> "false", prompts |-> {}]
    ELSE IF autoUpdateMakefile /\ IsNotAFunction("updateMakefile")
    THEN [events |-> <<"checkProjectFiles true", "updateMakefile">>, ret |-> "threw",
          prompts |-> {}]
    ELSE [makePhase(make) EXCEPT !.events = <<"checkProjectFiles true">> \o @]

\* ProjectManager.verifyProjectFiles(): what it returns and the
\* projectConfig it leaves; it does not save.
verifyProjectFiles(cfg, ws, lds, startups, continueLd, continueStartup) ==
    LET startupStep(c1, startupConfig) ==
            IF StartupMissing(c1) /\ ~startupConfig.found /\ ~continueStartup
            THEN [ret |-> FALSE, cfg |-> c1]
            ELSE [ret |-> TRUE,
                  cfg |-> IF StartupMissing(c1) /\ startupConfig.found
                          THEN setStartup(c1, startupConfig) ELSE c1]
        locateStartup(c1) == startupStep(c1, findStartupFile(c1, ws, startups))
        linkerStep(ldConfig) ==
            IF LinkerMissing(cfg) /\ ~ldConfig.found /\ ~continueLd
            THEN [ret |-> FALSE, cfg |-> cfg]
            ELSE locateStartup(IF LinkerMissing(cfg) /\ ldConfig.found
                               THEN setLinker(cfg, ldConfig) ELSE cfg)
    IN  linkerStep(findLinkerScript(cfg, ws, lds))

\* ProjectManager.setupProject(): "false" or "threw", the descriptor and the
\* store it leaves.  It ends at its call of generateMakefile().
setupProject(S, ioc, ws, platform, iocs, lds, startups, goOnLd, goOnStartup, writeOk1, writeOk2, cppOk) ==
    LET finish(l, i, v) ==
            IF ~v.ret
            THEN [ret |-> "false", ioc |-> l.ioc, S |-> [i.S EXCEPT !.cfg = v.cfg]]
            ELSE [ret |-> IF IsNotAFunction("generateMakefile") THEN "threw" ELSE "true",
                  ioc |-> l.ioc,
                  S |-> saveConfig([i.S EXCEPT !.cfg = v.cfg], ws, platform, writeOk2,
                                   cppOk).S]
        verify(l, i) ==
            finish(l, i, verifyProjectFiles(i.S.cfg, ws, lds, startups, goOnLd, goOnStartup))
        initialize(l) ==
            verify(l, initializeProjectConfig([S EXCEPT !.cfg = l.cfg], ws, platform, lds,
                                              startups, writeOk1, cppOk))
    IN  IF ws = "none" THEN [ret |-> "false", ioc |-> ioc, S |-> S]
        ELSE initialize(loadIOCConfig(ioc, S.cfg, iocs, ws))

\* The result of the last checkMakefile() call.
NoDetails ==
    [currentStartup |-> "", expectedStartup |-> "", currentLdscript |-> "",
     expectedLdscript |-> ""]
NoMakefileCheck == [called |-> FALSE, threw |-> FALSE, upToDate |-> FALSE, details |-> NoDetails]

\* makefileGenerator.checkMakefile(), as ProjectManager.checkMakefile() and
\* BuildManager.checkBuildTools() call it.
checkMakefile ==
    IF IsNotAFunction("checkMakefile")
    THEN [called |-> TRUE, threw |-> TRUE, upToDate |-> FALSE, details |-> NoDetails]
    ELSE NoMakefileCheck

---------------------------------------------------------------------------
(* FlashManager: the flash history and .stm32-flash-history.json *)

\* The entries addToHistory() keeps.
HistoryLimit == 50

\* <workspace>/.stm32-flash-history.json: absent, the JSON text of a list of
\* entries, or a text that JSON.parse rejects.
NoHistoryFile == [kind |-> "absent", entries |-> <<>>]
HistoryFile(entries) == [kind |-> "json", entries |-> entries]
CorruptHistoryFile == [kind |-> "corrupt", entries |-> <<>>]

\* FlashManager's constructor: an empty history.  all is a history
\* variable, the entries loaded and added since the list was last replaced
\* as a whole; added counts the addToHistory() calls.
\* call is the upload, uploadAndMonitor or flashLatestBuild call in flight or
\* the last one: where it waits, what it returned and, in order, what it
\* found and the programmer commands it ran.
NoFlashCall ==
    [name |-> "none", pc |-> "idle", ret |-> "none", firmware |-> "none", events |-> <<>>]
NoFlash ==
    [flashHistory |-> <<>>, file |-> NoHistoryFile, all |-> <<>>, added |-> 0,
     call |-> NoFlashCall]

\* items.slice(-n)
sliceLast(items, n) ==
    IF Len(items) <= n THEN items ELSE SubSeq(items, Len(items) - n + 1, Len(items))

\* saveHistoryToFile(): nothing without a workspace; a failed write is
\* caught and logged.
saveHistoryToFile(F, ws, writeOk) ==
    IF ws = "none" \/ ~writeOk THEN F
    ELSE [F EXCEPT !.file = HistoryFile(F.flashHistory)]

\* An addToHistory() that cuts the list to its first entries.
addToHistoryKeepingFirst(F, entry, ws, writeOk) ==
    LET pushed == Append(F.flashHistory, entry)
        kept == IF Len(pushed) > HistoryLimit THEN SubSeq(pushed, 1, HistoryLimit)
                ELSE pushed
    IN  saveHistoryToFile([F EXCEPT !.flashHistory = kept,
                                    !.all = Append(F.all, entry),
                                    !.added = F.added + 1], ws, writeOk)

\* addToHistory(entry)
addToHistory(F, entry, ws, writeOk) ==
    LET pushed == Append(F.flashHistory, entry)
        kept == IF Len(pushed) > HistoryLimit THEN sliceLast(pushed, HistoryLimit)
                ELSE pushed
    IN  saveHistoryToFile([F EXCEPT !.flashHistory = kept,
                                    !.all = Append(F.all, entry),
                                    !.added = F.added + 1], ws, writeOk)

\* loadHistoryFromFile(): nothing without a workspace or without the file;
\* a text that does not parse gives an empty history.
loadHistoryFromFile(F, ws) ==
    IF ws = "none" \/ F.file.kind = "absent" THEN F
    ELSE IF F.file.kind = "json"
    THEN [F EXCEPT !.flashHistory = F.file.entries, !.all = F.file.entries]
    ELSE [F EXCEPT !.flashHistory = <<>>, !.all = <<>>]

\* A flash call begins: it calls build() and awaits it.
Calling(F, name) ==
    [F EXCEPT !.call = [NoFlashCall EXCEPT !.name = name, !.pc = "building"]]

\* A flash call goes on to its next await with more events, or returns.
FlashAwaiting(F, pc, events) ==
    [F EXCEPT !.call.pc = pc, !.call.events = F.call.events \o events]
FlashReturned(F, ret, events) ==
    [F EXCEPT !.call.pc = "idle", !.call.ret = ret,
              !.call.events = F.call.events \o events]

\* The entry flashFirmware() adds: its time stamp and its success flag.
FlashEntry(F, success) == <<HistoryLimit + F.added + 1, success>>

\* A flash call that goes on to the firmware whatever build() returned.
afterBuildUnchecked(F, ret, firmware, programmer) ==
    IF F.call.pc # "building" THEN F
    ELSE IF ret = "threw" THEN FlashReturned(F, "threw", <<"build threw">>)
    ELSE IF firmware = "none"
    THEN FlashReturned(F, "false", <<"build " \o ret, "no firmware">>)
    ELSE IF ~programmer
    THEN FlashReturned(F, "false", <<"build " \o ret, "firmware " \o firmware, "no programmer">>)
    ELSE [FlashAwaiting(F, "confirm",
                        <<"build " \o ret, "firmware " \o firmware, "programmer">>)
             EXCEPT !.call.firmware = firmware]

\* upload(), uploadAndMonitor() and flashLatestBuild() after build() ended
\* with ret: a throw of build() rejects the call, a falsy result returns
\* false; then findFirmwareFile() and flashFirmware() up to its modal
\* question.  firmware is the kind of file findFirmwareFile() finds,
\* programmer whether the programmer binary exists.
afterBuild(F, ret, firmware, programmer) ==
    IF F.call.pc # "building" THEN F
    ELSE IF ret = "threw" THEN FlashReturned(F, "threw", <<"build threw">>)
    ELSE IF ret # "true" THEN FlashReturned(F, "false", <<"build " \o ret>>)
    ELSE IF firmware = "none"
    THEN FlashReturned(F, "false", <<"build " \o ret, "no firmware">>)
    ELSE IF ~programmer
    THEN FlashReturned(F, "false", <<"build " \o ret, "firmware " \o firmware, "no programmer">>)
    ELSE [FlashAwaiting(F, "confirm",
                        <<"build " \o ret, "firmware " \o firmware, "programmer">>)
             EXCEPT !.call.firmware = firmware]

\* What a vscode.window.show...Message() call returns: a thenable that
\* resolves with the user's answer.
Thenable(answer) == <<"thenable">> \o answer

\* flashFirmware() from the answer to its modal question on: the ST-LINK
\* listing, whose failure is ignored, and the write command, then the entry
\* in the history; uploadAndMonitor() then launches stm32.smartMonitor.  A
\* failed command leaves the call at the prompt of handleFlashError().
confirmFlash(F, answer, cmdOk, ws, writeOk) ==
    IF answer # Str("Flash") THEN FlashReturned(F, "false", <<"declined">>)
    ELSE LET ran == <<"confirmed", "list", "write " \o F.call.firmware>>
             after == IF F.call.name = "uploadAndMonitor" THEN <<"smartMonitor">> ELSE <<>>
         IN  IF cmdOk
             THEN addToHistory(FlashReturned(F, "true", ran \o after),
                               FlashEntry(F, TRUE), ws, writeOk)
             ELSE addToHistory(FlashAwaiting(F, "flashError", ran),
                               FlashEntry(F, FALSE), ws, writeOk)

\* eraseFlash(): the warning is shown and its thenable, not the answer, is
\* compared with the button label.
eraseFlash(answer, programmer, cmdOk) ==
    LET choice == Thenable(answer)
    IN  IF choice # Str("Erase") THEN [ret |-> FALSE, events |-> <<>>]
        ELSE IF ~programmer THEN [ret |-> FALSE, events |-> <<"no programmer">>]
        ELSE [ret |-> cmdOk, events |-> <<"erase all">>]

\* clearFlashHistory(): the warning is shown and its thenable, not the
\* answer, is compared with the button label.
clearFlashHistory(F, answer) ==
    LET choice == Thenable(answer)
    IN  IF choice = Str("Clear") THEN [F EXCEPT !.flashHistory = <<>>, !.all = <<>>]
        ELSE F

---------------------------------------------------------------------------
(* The environment: what the files of a workspace may hold *)

Platforms == {"linux", "darwin", "win32"}

\* Texts of .stm32-config.json that a user writes by hand.
UserConfigTexts ==
    { <<>>,
      <<Member("mcu", Str("STM32F103C8Tx"))>>,
      <<Member("autoUpdateMakefile", Bool(FALSE)),
        Member("includeDirs", Arr(<<"Inc">>))>>,
      <<Member("editorTabSize", Num("4")),
        Member("projectName", Str("draft")),
        Member("projectName", Str("blinky"))>> }

UserConfigFiles ==
    {AbsentFile, InvalidFile} \cup {TextFile(t) : t \in UserConfigTexts}

IocBoard ==
    << IocComment,
       IocLine("Mcu.CPN", "STM32F103C8Tx"),
       IocLine("ProjectManager.ProjectName", "sensor"),
       IocBlank >>

IocPartial ==
    << IocNoKey,
       IocLine("Mcu.Name", "STM32F407V(E-G)Tx"),
       IocLine("ProjectManager.StackSize", "0x800"),
       IocLine("Mcu.CPN", "") >>

IocFileLists == { <<>>, <<IocBoard>>, <<IocPartial, IocBoard>> }

UserCppConfiguration ==
    [name |-> Str("Custom"), includePath |-> Arr(<<"${workspaceFolder}/old">>)]

CppStates ==
    { CppAbsent, CppInvalid, CppNull,
      CppObject([version |-> Num("4")]),
      CppObject([configurations |-> <<>>, version |-> Num("4")]),
      CppObject([configurations |-> <<UserCppConfiguration>>, version |-> Num("4")]) }

---------------------------------------------------------------------------
(* History variables *)

\* What the last operation was, what it returned ("true", "false", "none"
\* for no value yet, "threw" for an exception), whether it left another
\* projectConfig than it found, and whether a saveConfig() call inside it
\* returned true.
Op(name, ret, changed, saved) ==
    [name |-> name, ret |-> ret, changed |-> changed, saved |-> saved, events |-> <<>>]

\* An operation that ended a build() call: what build() returned and, in
\* order, the steps it took and the commands it launched.
BuildOp(name, r, changed) ==
    [name |-> name, ret |-> r.ret, changed |-> changed, saved |-> FALSE, events |-> r.events]
Ret(b) == IF b THEN "true" ELSE "false"

NoRoundTrip == [phase |-> 0, first |-> EmptyObject]

\* A loadConfig() call starts a round trip, or ends the one a successful
\* saveConfig() call continued.
roundTripLoad(cfg) ==
    IF roundTrip.phase = 2 THEN [roundTrip EXCEPT !.phase = 3]
    ELSE [phase |-> 1, first |-> cfg]

roundTripSave(ret) ==
    IF roundTrip.phase = 1 /\ ret THEN [roundTrip EXCEPT !.phase = 2]
    ELSE NoRoundTrip

---------------------------------------------------------------------------
(* Operations of the configuration store *)

Cur == Store(projectConfig, configFile, cppProps)

Apply(S) ==
    /\ projectConfig' = S.cfg
    /\ configFile' = S.file
    /\ cppProps' = S.cpp

buildVars ==
    <<ldFiles, startupFiles, makefile, now, buildCall, makefileCheck, renders, result>>
hostVars == <<currentPlatform, workspacePath, iocFiles, disk, devices>>
toolVars == <<monitor, flash, polling>>

\* The outcomes of fs.writeFileSync(configPath, ...): it succeeds on a
\* writable disk, throws on a read-only one, and may do either otherwise.
WriteOutcomes ==
    CASE disk = "writable" -> {TRUE}
      [] disk = "read-only" -> {FALSE}
      [] OTHER -> BOOLEAN

\* new ConfigManager(workspacePath, currentPlatform): the store and the
\* descriptor the constructor leaves.
Constructed(platform, ws, file, cpp, files, cppOk) ==
    IF ws = "none"
    THEN [S |-> Store(getDefaultConfig(platform), file, cpp), ioc |-> NoIOC,
          iocChanged |-> FALSE]
    ELSE LET applied(loaded, ioc) ==
                 [S |-> [loaded EXCEPT !.cfg = ioc.cfg], ioc |-> ioc.ioc,
                  iocChanged |-> ioc.cfg # loaded.cfg]
             described(loaded) ==
                 applied(loaded, loadIOCConfig(NoIOC, loaded.cfg, files, ws))
         IN  described(loadConfig(Store(EmptyObject, file, cpp), ws, platform, cppOk))

\* Stm32Manager.loadConfig(): configManager.loadConfig().
LoadConfig(cppOk) ==
    \E S \in {loadConfig(Cur, workspacePath, currentPlatform, cppOk)} :
            /\ Apply(S)
            /\ lastOp' = Op("loadConfig", "none", S.cfg # projectConfig, FALSE)
            /\ roundTrip' = roundTripLoad(S.cfg)
            /\ UNCHANGED <<hostVars, toolVars, iocConfig, buildVars>>

\* configManager.saveConfig(), as ProjectManager.setupProject calls it.
SaveConfig(cppOk) ==
    \E writeOk \in WriteOutcomes :
        \E r \in {saveConfig(Cur, workspacePath, currentPlatform, writeOk, cppOk)} :
            /\ Apply(r.S)
            /\ lastOp' = Op("saveConfig", Ret(r.ret), r.S.cfg # projectConfig, r.ret)
            /\ roundTrip' = roundTripSave(r.ret)
            /\ UNCHANGED <<hostVars, toolVars, iocConfig, buildVars>>

\* resetToDefaults()
ResetToDefaults(cppOk) ==
    \E writeOk \in WriteOutcomes :
        \E r \in {saveConfig([Cur EXCEPT !.cfg = getDefaultConfig(currentPlatform)],
                             workspacePath, currentPlatform, writeOk, cppOk)} :
            /\ Apply(r.S)
            /\ lastOp' = Op("resetToDefaults", Ret(r.ret), r.S.cfg # projectConfig, r.ret)
            /\ roundTrip' = NoRoundTrip
            /\ UNCHANGED <<hostVars, toolVars, iocConfig, buildVars>>

\* reloadIOCConfig(): loadIOCConfig(), then saveConfig().
ReloadIOCConfig(cppOk) ==
    \E writeOk \in WriteOutcomes :
        \E l \in {loadIOCConfig(iocConfig, projectConfig, iocFiles, workspacePath)} :
        \E r \in {saveConfig([Cur EXCEPT !.cfg = l.cfg], workspacePath,
                             currentPlatform, writeOk, cppOk)} :
            /\ Apply(r.S)
            /\ iocConfig' = l.ioc
            /\ lastOp' = Op("reloadIOCConfig", Ret(l.ioc.loaded),
                            r.S.cfg # projectConfig, r.ret)
            /\ roundTrip' = NoRoundTrip
            /\ UNCHANGED <<hostVars, toolVars, buildVars>>

BaudRates == {"9600", "115200"}

\* MonitorManager.changeBaudRate(), once the user has picked a rate.
ChangeBaudRate(cppOk) ==
    \E rate \in BaudRates, writeOk \in WriteOutcomes :
        \E r \in {saveConfig([Cur EXCEPT !.cfg = Put(@, "baudRate", Num(rate))],
                             workspacePath, currentPlatform, writeOk, cppOk)} :
            /\ Apply(r.S)
            /\ lastOp' = Op("changeBaudRate", "none", r.S.cfg # projectConfig, r.ret)
            /\ roundTrip' = NoRoundTrip
            /\ UNCHANGED <<hostVars, toolVars, iocConfig, buildVars>>

\* The user saves .stm32-config.json in the editor: the file gets the text,
\* and the onDidSaveTextDocument listener calls configManager.loadConfig().
saveListener(cppOk) ==
    /\ workspacePath # "none"
    /\ \E file \in UserConfigFiles \ {AbsentFile} :
        \E S \in {loadConfig([Cur EXCEPT !.file = file], workspacePath,
                             currentPlatform, cppOk)} :
            /\ Apply(S)
            /\ lastOp' = Op("saveListener", "none", S.cfg # projectConfig, FALSE)
            /\ roundTrip' = NoRoundTrip
            /\ UNCHANGED <<hostVars, toolVars, iocConfig, buildVars>>

\* The tree view's updateWorkspace(), when the workspace folder is closed
\* or opened: every manager gets the new path and the configuration is
\* loaded again; the flash history is loaded when a folder is open.
updateWorkspace(cppOk) ==
    \E ws \in {"ws", "none"} \ {workspacePath} :
        \E S \in {loadConfig(Cur, ws, currentPlatform, cppOk)} :
            /\ workspacePath' = ws
            /\ Apply(S)
            /\ lastOp' = Op("updateWorkspace", "none", S.cfg # projectConfig, FALSE)
            /\ roundTrip' = NoRoundTrip
            /\ flash' = loadHistoryFromFile(flash, ws)
            /\ UNCHANGED <<currentPlatform, iocFiles, disk, devices, monitor, polling,
                           iocConfig, buildVars>>

\* Another program replaces or removes .stm32-config.json; no listener runs.
ExternalConfigChange ==
    /\ \E file \in UserConfigFiles :
        /\ file # configFile
        /\ configFile' = file
    /\ lastOp' = Op("external", "none", FALSE, FALSE)
    /\ roundTrip' = NoRoundTrip
    /\ UNCHANGED <<hostVars, toolVars, projectConfig, cppProps, iocConfig, buildVars>>

---------------------------------------------------------------------------
(* The configuration store on its own: c_cpp_properties.json starts absent *)
(* and every write of it succeeds.                                         *)

NoBuild == [pc |-> "idle", prompts |-> {}]

\* No call of the monitor manager waits at a timer.
NoMonitorCall == [name |-> "none", pc |-> "idle", port |-> Null, mode |-> Null]

\* MonitorManager's constructor: no terminal, nothing monitored.  Terminals
\* are numbered in creation order, 0 standing for null; open are the
\* monitor terminals of the window, closing those whose close event is on
\* its way to the extension; call is the call that waits at a timer.
NoMonitor ==
    [isMonitoring |-> FALSE, monitorTerminal |-> 0, currentPort |-> Null,
     monitorMode |-> Null, open |-> {}, closing |-> {}, created |-> 0,
     call |-> NoMonitorCall]

\* ConnectionManager's constructor: portMonitoringInterval is null (0).
\* Timers are numbered in creation order; active are the timers that were
\* not cleared; callback and previousPorts are those of each timer's
\* closure; polls are the timers with a poll awaiting findAllSerialPorts().
NoPolling ==
    [portMonitoringInterval |-> 0, timers |-> 0, active |-> {}, callback |-> <<>>,
     previousPorts |-> <<>>, polls |-> {}]

\* No resolver has been called yet.
NoResult == [name |-> "none", threw |-> FALSE, value |-> <<>>]

\* The state the Stm32Manager constructor leaves.
Activated(platform, ws, file, cpp, files, cppOk) ==
    \E c \in {Constructed(platform, ws, file, cpp, files, cppOk)} :
        /\ currentPlatform = platform
        /\ workspacePath = ws
        /\ iocFiles = files
        /\ projectConfig = c.S.cfg
        /\ configFile = c.S.file
        /\ cppProps = c.S.cpp
        /\ iocConfig = c.ioc
        /\ lastOp = Op("constructor", "none", c.iocChanged, FALSE)
        /\ roundTrip = NoRoundTrip
        /\ makefile = NoMakefile
        /\ now = 0
        /\ buildCall = NoBuild
        /\ makefileCheck = NoMakefileCheck
        /\ renders = <<>>
        /\ monitor = NoMonitor
        /\ polling = NoPolling
        /\ result = NoResult

InitStore ==
    /\ disk = "unreliable"
    /\ devices = <<>>
    /\ flash = NoFlash
    /\ \E ws \in {"ws", "none"}, file \in UserConfigFiles, files \in IocFileLists :
        Activated("linux", ws, file, CppAbsent, files, TRUE)
    /\ ldFiles = <<>>
    /\ startupFiles = <<>>

NextStore ==
    \/ LoadConfig(TRUE)
    \/ SaveConfig(TRUE)
    \/ ResetToDefaults(TRUE)
    \/ ReloadIOCConfig(TRUE)
    \/ ChangeBaudRate(TRUE)
    \/ saveListener(TRUE)
    \/ updateWorkspace(TRUE)
    \/ ExternalConfigChange

SpecStore == InitStore /\ [][NextStore]_vars

---------------------------------------------------------------------------
(* The configuration store with a c_cpp_properties.json that the user or   *)
(* another tool wrote before, and whose writes may fail.                   *)

InitCpp ==
    /\ disk = "unreliable"
    /\ devices = <<>>
    /\ flash = NoFlash
    /\ \E file \in UserConfigFiles, cpp \in CppStates, cppOk \in BOOLEAN :
        Activated("linux", "ws", file, cpp, <<>>, cppOk)
    /\ ldFiles = <<>>
    /\ startupFiles = <<>>

NextCpp ==
    \E cppOk \in BOOLEAN :
        \/ SaveConfig(cppOk)
        \/ ResetToDefaults(cppOk)
        \/ ChangeBaudRate(cppOk)
        \/ saveListener(cppOk)

SpecCpp == InitCpp /\ [][NextCpp]_vars

---------------------------------------------------------------------------
(* Operations of the project and build managers *)

fileVars == <<ldFiles, startupFiles>>

\* The seconds the wall clock passes through.
MaxClock == 2

\* The history of generateContent() calls keeps the latest call and, when
\* it had the same arguments, the one before it.
LastRenders(calls) ==
    IF Len(calls) < 2 THEN calls
    ELSE IF calls[Len(calls) - 1][1] = calls[Len(calls)][1]
    THEN SubSeq(calls, Len(calls) - 1, Len(calls))
    ELSE <<calls[Len(calls)]>>

\* The build() call ended: the resets its error message offers are added
\* to those still on offer.
Ended(r) == [pc |-> "idle", prompts |-> buildCall.prompts \cup r.prompts]

\* The firmware findFirmwareFile() can find after a build, and whether the
\* programmer binary exists: inputs of a flash call that awaits build().
FlashInputs(F) ==
    IF F.call.pc = "building" THEN {"none", "hex", "bin"} \X BOOLEAN
    ELSE {<<"none", FALSE>>}

\* build() up to its end, or to the prompt checkProjectFiles() waits at,
\* called by name: the command stm32.build, or a flash call, which leaves
\* the flash manager as F and goes on when build() has ended.
BuildFor(name, F) ==
    /\ buildCall.pc = "idle"
    /\ \E writeOk1 \in WriteOutcomes, writeOk2 \in WriteOutcomes, in \in FlashInputs(F) :
        IF workspacePath = "none"
        THEN /\ lastOp' = Op(name, "false", FALSE, FALSE)
             /\ flash' = afterBuild(F, "false", in[1], in[2])
             /\ UNCHANGED <<projectConfig, configFile, cppProps, buildCall>>
        ELSE \E c \in {checkProjectFiles(Cur, workspacePath, currentPlatform, ldFiles,
                                          startupFiles, writeOk1, writeOk2, TRUE)} :
             /\ Apply(c.S)
             /\ IF c.outcome = "true"
                THEN \E make \in MakeOutcomes :
                     \E r \in {buildAfterCheck(
                                  TRUE, Truthy(Get(c.S.cfg, "autoUpdateMakefile")), make)} :
                        /\ buildCall' = Ended(r)
                        /\ flash' = afterBuild(F, r.ret, in[1], in[2])
                        /\ lastOp' = BuildOp(name, r, c.S.cfg # projectConfig)
                ELSE /\ buildCall' = [buildCall EXCEPT !.pc = c.outcome]
                     /\ flash' = F
                     /\ lastOp' = Op(name, "none", c.S.cfg # projectConfig, FALSE)
    /\ roundTrip' = NoRoundTrip
    /\ UNCHANGED <<hostVars, monitor, polling, iocConfig, fileVars, makefile, now,
                   makefileCheck, renders, result>>

\* stm32.build
Build == BuildFor("build", flash)

LinkerChoices == {"Find automatically", "Select manually", "Cancel build"}
StartupChoices == {"Find automatically", "Select manually", "Continue without startup",
                   "Dismissed"}

\* The user answers the warning of handleMissingLinker(); build() goes on
\* with what checkProjectFiles() returns, and so does the flash call that
\* awaits it.
HandleMissingLinker ==
    /\ buildCall.pc = "missingLinker"
    /\ \E choice \in LinkerChoices, pick \in 0..Len(ldFiles), writeOk \in WriteOutcomes,
          in \in FlashInputs(flash) :
        \E r \in {handleMissingLinker(Cur, workspacePath, currentPlatform, ldFiles,
                                      choice, pick, writeOk, TRUE)} :
            /\ Apply(r.S)
            /\ \E make \in MakeOutcomes :
               \E b \in {buildAfterCheck(
                            r.ret, Truthy(Get(r.S.cfg, "autoUpdateMakefile")), make)} :
                       /\ buildCall' = Ended(b)
                       /\ flash' = afterBuild(flash, b.ret, in[1], in[2])
                       /\ lastOp' = BuildOp("handleMissingLinker", b, r.S.cfg # projectConfig)
    /\ roundTrip' = NoRoundTrip
    /\ UNCHANGED <<hostVars, monitor, polling, iocConfig, fileVars, makefile, now,
                   makefileCheck, renders, result>>

\* The user answers the warning of handleMissingStartup().
HandleMissingStartup ==
    /\ buildCall.pc = "missingStartup"
    /\ \E choice \in StartupChoices, pick \in 0..Len(startupFiles), writeOk \in WriteOutcomes,
          in \in FlashInputs(flash) :
        \E r \in {handleMissingStartup(Cur, workspacePath, currentPlatform, startupFiles,
                                       choice, pick, writeOk, TRUE)} :
            /\ Apply(r.S)
            /\ \E make \in MakeOutcomes :
               \E b \in {buildAfterCheck(
                            r.ret, Truthy(Get(r.S.cfg, "autoUpdateMakefile")), make)} :
                       /\ buildCall' = Ended(b)
                       /\ flash' = afterBuild(flash, b.ret, in[1], in[2])
                       /\ lastOp' = BuildOp("handleMissingStartup", b, r.S.cfg # projectConfig)
    /\ roundTrip' = NoRoundTrip
    /\ UNCHANGED <<hostVars, monitor, polling, iocConfig, fileVars, makefile, now,
                   makefileCheck, renders, result>>

\* The user answers the error message of handleBuildError() with the reset
\* it offers, or with another button.
HandleBuildError ==
    \E kind \in buildCall.prompts, reset \in BOOLEAN, writeOk \in WriteOutcomes :
        \E r \in {IF reset
                  THEN saveConfig([Cur EXCEPT !.cfg = IF kind = "linker"
                                                      THEN resetLinker(projectConfig)
                                                      ELSE resetStartup(projectConfig)],
                                  workspacePath, currentPlatform, writeOk, TRUE)
                  ELSE [ret |-> FALSE, S |-> Cur]} :
            /\ Apply(r.S)
            /\ buildCall' = [buildCall EXCEPT !.prompts = @ \ {kind}]
            /\ lastOp' = Op("handleBuildError", "none", r.S.cfg # projectConfig, r.ret)
            /\ roundTrip' = NoRoundTrip
            /\ UNCHANGED <<hostVars, toolVars, iocConfig, fileVars, makefile, now, makefileCheck,
                           renders, result>>

\* configManager.initializeProjectConfig()
InitializeProjectConfig ==
    \E writeOk \in WriteOutcomes :
        \E r \in {initializeProjectConfig(Cur, workspacePath, currentPlatform, ldFiles,
                                          startupFiles, writeOk, TRUE)} :
            /\ Apply(r.S)
            /\ lastOp' = Op("initializeProjectConfig", Ret(r.ret),
                            r.S.cfg # projectConfig, r.ret)
            /\ roundTrip' = NoRoundTrip
            /\ UNCHANGED <<hostVars, toolVars, iocConfig, buildVars>>

\* stm32.setupProject
SetupProject ==
    \E continueLd \in BOOLEAN, continueStartup \in BOOLEAN, writeOk1 \in WriteOutcomes,
       writeOk2 \in WriteOutcomes :
        \E r \in {setupProject(Cur, iocConfig, workspacePath, currentPlatform, iocFiles,
                               ldFiles, startupFiles, continueLd, continueStartup,
                               writeOk1, writeOk2, TRUE)} :
            /\ Apply(r.S)
            /\ iocConfig' = r.ioc
            /\ lastOp' = Op("setupProject", r.ret, r.S.cfg # projectConfig, FALSE)
            /\ roundTrip' = NoRoundTrip
            /\ UNCHANGED <<hostVars, toolVars, buildVars>>

\* makefileGenerator.generate()
Generate ==
    \E writeOk \in WriteOutcomes :
        \E r \in {generate(projectConfig, workspacePath, makefile, now, writeOk)} :
            /\ makefile' = r.makefile
            /\ renders' = LastRenders(renders \o r.rendered)
            /\ lastOp' = Op("generate", IF r.threw THEN "threw" ELSE Ret(r.ret),
                            FALSE, FALSE)
            /\ roundTrip' = NoRoundTrip
            /\ UNCHANGED <<hostVars, toolVars, projectConfig, configFile, cppProps, iocConfig,
                           fileVars, now, buildCall, makefileCheck, result>>

\* A second passes on the wall clock.
Tick ==
    /\ now < MaxClock
    /\ now' = now + 1
    /\ lastOp' = Op("external", "none", FALSE, FALSE)
    /\ roundTrip' = NoRoundTrip
    /\ UNCHANGED <<hostVars, toolVars, projectConfig, configFile, cppProps, iocConfig, fileVars,
                   makefile, buildCall, makefileCheck, renders, result>>

\* ProjectManager.checkMakefile()
CheckMakefile ==
    /\ makefileCheck' = checkMakefile
    /\ lastOp' = Op("checkMakefile", IF checkMakefile.threw THEN "threw" ELSE "none",
                    FALSE, FALSE)
    /\ roundTrip' = NoRoundTrip
    /\ UNCHANGED <<hostVars, toolVars, projectConfig, configFile, cppProps, iocConfig, fileVars,
                   makefile, now, buildCall, renders, result>>

\* A linker script or a startup file appears in the workspace.
NewLinkerFile == "/ws/STM32F103C8Tx_FLASH.ld"
NewStartupFile == "/ws/Core/Startup/startup_stm32f103xe.s"

AddLinkerFile ==
    /\ ldFiles = <<>>
    /\ ldFiles' = <<NewLinkerFile>>
    /\ lastOp' = Op("external", "none", FALSE, FALSE)
    /\ roundTrip' = NoRoundTrip
    /\ UNCHANGED <<hostVars, toolVars, projectConfig, configFile, cppProps, iocConfig, startupFiles,
                   makefile, now, buildCall, makefileCheck, renders, result>>

AddStartupFile ==
    /\ \A i \in DOMAIN startupFiles : startupFiles[i] # NewStartupFile
    /\ Len(startupFiles) < 2
    /\ startupFiles' = Append(startupFiles, NewStartupFile)
    /\ lastOp' = Op("external", "none", FALSE, FALSE)
    /\ roundTrip' = NoRoundTrip
    /\ UNCHANGED <<hostVars, toolVars, projectConfig, configFile, cppProps, iocConfig, ldFiles,
                   makefile, now, buildCall, makefileCheck, renders, result>>

\* The linker scripts and the assembly files of a workspace: one without
\* a linker script or a startup file, one with two of each.
Workspaces ==
    { << <<>>, <<"/ws/asm/delay.s">> >>,
      << <<"/ws/STM32F103C8Tx_FLASH.ld", "/ws/ld/STM32F407VGT_FLASH.ld">>,
         <<"/ws/boot/startup_custom.S", "/ws/startup_stm32f407xx.s">> >> }

\* Configuration files that leave the linker script and the startup file to
\* the resolvers.
BuildConfigFiles ==
    { AbsentFile,
      TextFile(<<Member("autoUpdateMakefile", Bool(FALSE)),
                 Member("includeDirs", Arr(<<"Inc">>))>>) }

InitBuild ==
    /\ disk \in {"writable", "read-only"}
    /\ devices = <<>>
    /\ flash = NoFlash
    /\ \E ws \in {"ws", "none"}, file \in BuildConfigFiles :
        Activated("linux", ws, file, CppAbsent, <<>>, TRUE)
    /\ \E w \in Workspaces :
        /\ ldFiles = w[1]
        /\ startupFiles = w[2]

NextBuild ==
    \/ Build
    \/ HandleMissingLinker
    \/ HandleMissingStartup
    \/ HandleBuildError
    \/ InitializeProjectConfig
    \/ ResetToDefaults(TRUE)
    \/ SaveConfig(TRUE)
    \/ AddLinkerFile
    \/ AddStartupFile

SpecBuild == InitBuild /\ [][NextBuild]_vars

---------------------------------------------------------------------------
(* The Makefile generator: the same workspaces, with the commands that     *)
(* write and check the Makefile and the edits that change what it should   *)
(* hold.                                                                   *)

NextMakefile ==
    \/ Generate
    \/ CheckMakefile
    \/ SetupProject
    \/ saveListener(TRUE)
    \/ AddLinkerFile

SpecMakefile == InitBuild /\ [][NextMakefile]_vars

---------------------------------------------------------------------------
(* Makefile rendering over time: generate() is called as the wall clock    *)
(* advances and the configuration file is edited.                          *)

NextRender ==
    \/ Generate
    \/ Tick
    \/ saveListener(TRUE)

SpecRender == InitBuild /\ [][NextRender]_vars

---------------------------------------------------------------------------
(* The Makefile generator on its own: generate() called for configuration  *)
(* files that list source directories and excluded files in many ways.     *)

\* Texts of .stm32-config.json about the sources: the directories and the
\* excluded files as arrays, excludeFiles as one string, no directories,
\* and an mcu that is a number.
SourceConfigTexts ==
    { <<Member("sourceDirs", Arr(<<"Core/Src">>)),
        Member("excludeFiles", Arr(<<"main_test.c">>))>>,
      <<Member("sourceDirs", Arr(<<"Lib", "Core/Src">>)),
        Member("excludeFiles", Arr(<<"main_test.c", "Lib/legacy.c">>))>>,
      <<Member("sourceDirs", Arr(<<>>)),
        Member("excludeFiles", Arr(<<"main_test.c">>))>>,
      <<Member("excludeFiles", Str("main_test.c"))>>,
      <<Member("mcu", Num("407"))>> }

SourceConfigFiles == {AbsentFile} \cup {TextFile(t) : t \in SourceConfigTexts}

InitGenerate ==
    /\ disk \in {"writable", "read-only"}
    /\ devices = <<>>
    /\ flash = NoFlash
    /\ \E ws \in {"ws", "none"}, file \in SourceConfigFiles :
        Activated("linux", ws, file, CppAbsent, <<>>, TRUE)
    /\ ldFiles = <<>>
    /\ startupFiles = <<>>

NextGenerate ==
    \/ Generate
    \/ Tick
    \/ ResetToDefaults(TRUE)

SpecGenerate == InitGenerate /\ [][NextGenerate]_vars

---------------------------------------------------------------------------
(* The resolvers on their own: getMCUParams, findLinkerScript and          *)
(* findStartupFile, called for MCU names and workspaces of many kinds.     *)

\* The mcu values of .stm32-config.json: a part of every family of the
\* table, a part with a trailing digit, a part of no family, a name in lower
\* case, a name that holds two families, a short name, and a number.
McuValues ==
    { Str("STM32F407VGTx"), Str("STM32F407VGT6"), Str("STM32F401RETx"),
      Str("STM32F411CEUx"), Str("STM32F103C8Tx"), Str("STM32F303VCTx"),
      Str("STM32F030R8Tx"), Str("STM32G071RBTx"), Str("STM32L476RGTx"),
      Str("STM32H750VBTx"), Str("STM32F746ZGTx"), Str("stm32f103c8tx"),
      Str("STM32F103xx-STM32F407xx"), Str("x"), Str(""), Num("407") }

\* The files of a workspace, as <<files a linker script search enumerates,
\* files a startup file search enumerates>>.
ResolverWorkspaces ==
    { << <<>>, <<"/ws/asm/delay.s">> >>,
      << <<"/ws/README.md", "/ws/node_modules/dep/STM32F407VGT_FLASH.ld">>,
         <<"/ws/node_modules/dep/startup_stm32f407xx.s">> >>,
      << <<"/ws/STM32F103C8Tx_FLASH.ld", "/ws/ld/STM32F407VGT_FLASH.ld">>,
         <<"/ws/boot/startup_custom.S", "/ws/startup_stm32f407xx.s">> >>,
      << <<"/ws/a/generic.ld", "/ws/b/STM32F407VGT_FLASH_v2.ld",
           "/ws/c/STM32F407VGT_FLASH.ld">>,
         <<"/ws/src/startup_generic.s", "/ws/src/startup_STM32F407xx.s">> >>,
      << <<"/ws/OLD.LD", "/ws/app.ld", "/ws/STM32_FLASH.ld">>,
         <<"/ws/lib/startup_a.s", "/ws/lib/startup_stm32f103xe.s",
           "/ws/lib/startup_stm32f103xe.s">> >> }

\* What a resolver call returned, or that it threw.
Resolved(name, threw, value) == [name |-> name, threw |-> threw, value |-> value]

\* configManager.getMCUParams(projectConfig.mcu), as the generator and the
\* resolvers call it.
GetMCUParams ==
    \E mcu \in {Get(projectConfig, "mcu")} :
        /\ result' = IF Truthy(mcu) /\ ~IsString(mcu)
                     THEN Resolved("getMCUParams", TRUE, <<>>)
                     ELSE Resolved("getMCUParams", FALSE, getMCUParams(projectConfig, mcu))
        /\ lastOp' = Op("getMCUParams", "none", FALSE, FALSE)
        /\ roundTrip' = NoRoundTrip
        /\ UNCHANGED <<hostVars, toolVars, projectConfig, configFile, cppProps, iocConfig, fileVars,
                       makefile, now, buildCall, makefileCheck, renders>>

\* configManager.getExpectedLinkerName(projectConfig.mcu), as
\* findLinkerScript() calls it.
GetExpectedLinkerName ==
    \E mcu \in {Get(projectConfig, "mcu")} :
        /\ result' = IF Truthy(mcu) /\ ~IsString(mcu)
                     THEN Resolved("getExpectedLinkerName", TRUE, <<>>)
                     ELSE Resolved("getExpectedLinkerName", FALSE,
                                   Join(getExpectedLinkerName(mcu)))
        /\ lastOp' = Op("getExpectedLinkerName", "none", FALSE, FALSE)
        /\ roundTrip' = NoRoundTrip
        /\ UNCHANGED <<hostVars, toolVars, projectConfig, configFile, cppProps, iocConfig, fileVars,
                       makefile, now, buildCall, makefileCheck, renders>>

\* configManager.findLinkerScript()
FindLinkerScript ==
    /\ result' = Resolved("findLinkerScript", FALSE,
                          findLinkerScript(projectConfig, workspacePath, ldFiles))
    /\ lastOp' = Op("findLinkerScript", "none", FALSE, FALSE)
    /\ roundTrip' = NoRoundTrip
    /\ UNCHANGED <<hostVars, toolVars, projectConfig, configFile, cppProps, iocConfig, fileVars,
                   makefile, now, buildCall, makefileCheck, renders>>

\* configManager.findStartupFile()
FindStartupFile ==
    /\ result' = Resolved("findStartupFile", FALSE,
                          findStartupFile(projectConfig, workspacePath, startupFiles))
    /\ lastOp' = Op("findStartupFile", "none", FALSE, FALSE)
    /\ roundTrip' = NoRoundTrip
    /\ UNCHANGED <<hostVars, toolVars, projectConfig, configFile, cppProps, iocConfig, fileVars,
                   makefile, now, buildCall, makefileCheck, renders>>

InitResolve ==
    /\ disk = "writable"
    /\ devices = <<>>
    /\ flash = NoFlash
    /\ \E ws \in {"ws", "none"}, mcu \in McuValues :
        Activated("linux", ws, TextFile(<<Member("mcu", mcu)>>), CppAbsent, <<>>, TRUE)
    /\ \E w \in ResolverWorkspaces :
        /\ ldFiles = w[1]
        /\ startupFiles = w[2]

NextResolve ==
    \/ GetMCUParams
    \/ GetExpectedLinkerName
    \/ FindLinkerScript
    \/ FindStartupFile

SpecResolve == InitResolve /\ [][NextResolve]_vars

---------------------------------------------------------------------------
(* The serial ports: findSerialPorts and findAllSerialPorts of utils.js,   *)
(* scanPorts and findAndSelectPort of the ConnectionManager, smartMonitor  *)
(* of the MonitorManager.  devices are the device files of the host, as    *)
(* ls and sort list them.                                                  *)

\* The pieces of a pattern between its "*".
RECURSIVE SplitAtStars(_)
SplitAtStars(cs) ==
    LET at == First({i \in DOMAIN cs : cs[i] = "*"})
    IN  IF at = {} THEN <<cs>>
        ELSE LET i == CHOOSE i \in at : TRUE
             IN  <<SubSeq(cs, 1, i - 1)>> \o SplitAtStars(SubSeq(cs, i + 1, Len(cs)))

\* The piece of a regular expression occurs in p at position i; its "."
\* stands for any character.
PieceAt(p, i, piece) ==
    /\ i + Len(piece) - 1 <= Len(p)
    /\ \A k \in 1..Len(piece) : piece[k] = "." \/ piece[k] = p[i + k - 1]

\* new RegExp(pieces.join('.*')).test(p), looking from position start on.
RECURSIVE RegExpTest(_, _, _)
RegExpTest(p, pieces, start) ==
    IF pieces = <<>> THEN TRUE
    ELSE LET at == {i \in start..(Len(p) + 1) : PieceAt(p, i, Head(pieces))}
         IN  /\ at # {}
             /\ RegExpTest(p, Tail(pieces),
                           (CHOOSE i \in at : \A j \in at : i <= j) + Len(Head(pieces)))

\* A device path begins with a prefix.
StartsWith(cs, prefix) ==
    Len(prefix) <= Len(cs) /\ SubSeq(cs, 1, Len(prefix)) = prefix

\* The ports the ls or powershell command of findSerialPorts(), or with all
\* that of findAllSerialPorts(), lists: no command on another platform.
listedPorts(platform, devs, all) ==
    LET path == [d \in {devs[i] : i \in DOMAIN devs} |-> Chars(d)]
        usb(p, prefix) ==
            StartsWith(p, prefix)
            /\ IndexOf(SubSeq(p, Len(prefix) + 1, Len(p)), Chars("usb")) # 0
        linux(p) ==
            \/ StartsWith(p, Chars("/dev/ttyUSB"))
            \/ StartsWith(p, Chars("/dev/ttyACM"))
            \/ all /\ StartsWith(p, Chars("/dev/ttyAMA"))
            \/ all /\ StartsWith(p, Chars("/dev/ttyS"))
        darwin(p) ==
            IF all
            THEN /\ StartsWith(p, Chars("/dev/tty")) \/ StartsWith(p, Chars("/dev/cu"))
                 /\ IndexOf(toLowerCase(p), Chars("usb")) # 0
            ELSE usb(p, Chars("/dev/tty")) \/ usb(p, Chars("/dev/cu"))
    IN  CASE platform = "linux" -> SelectSeq(devs, LAMBDA d : linux(path[d]))
          [] platform = "darwin" -> SelectSeq(devs, LAMBDA d : darwin(path[d]))
          [] platform = "win32" -> devs
          [] OTHER -> <<>>

\* findSerialPorts(pattern): pattern is a string or a falsy value.
findSerialPorts(pattern, platform, devs) ==
    LET given == IF pattern = Undefined THEN Str("*") ELSE pattern
        noBluetooth(ports) == SelectSeq(ports, LAMBDA p : ~Includes(p, "Bluetooth"))
        filtered(ports, pieces) ==
            IF Truthy(given) /\ given # Str("*")
            THEN SelectSeq(ports, LAMBDA p : RegExpTest(Chars(p), pieces, 1))
            ELSE ports
    IN  IF Truthy(given) /\ ~Includes(given[2], "*")
        THEN IF \E i \in DOMAIN devs : devs[i] = given[2]
             THEN <<given[2]>>
             ELSE <<>>
        ELSE Unique(filtered(noBluetooth(listedPorts(platform, devs, FALSE)),
                             IF Truthy(given) THEN SplitAtStars(Chars(given[2]))
                             ELSE <<>>))

\* findAllSerialPorts()
findAllSerialPorts(platform, devs) == listedPorts(platform, devs, TRUE)

\* findSerialPorts() rejects for a pattern that is truthy and not a string:
\* it has no includes().
RejectsPattern(pattern) == Truthy(pattern) /\ ~IsString(pattern)

\* What a port operation leaves: the port it returns (null when none), the
\* store, and whether it saved the configuration.
PortOutcome(port, S, saved) == [port |-> port, S |-> S, saved |-> saved]

\* scanPorts() on the store S, as the ports it returns and the store it
\* leaves.
scanPorts(S, ws, platform, devs, writeOk, cppOk) ==
    LET serialPort == Get(S.cfg, "serialPort")
        update(ports) ==
            IF Len(ports) > 0 /\ Str(ports[1]) # serialPort
            THEN LET r == saveConfig([S EXCEPT !.cfg = Put(@, "serialPort", Str(ports[1]))],
                                     ws, platform, writeOk, cppOk)
                 IN  PortOutcome(ports, r.S, r.ret)
            ELSE PortOutcome(ports, S, FALSE)
    IN  IF RejectsPattern(Or(serialPort, Str("*"))) THEN PortOutcome(<<>>, S, FALSE)
        ELSE update(findSerialPorts(Or(serialPort, Str("*")), platform, devs))

\* The ports findAndSelectPort() offers: those of the pattern, and all
\* ports when the pattern finds none.
offeredPorts(cfg, platform, devs) ==
    LET ports == findSerialPorts(Get(cfg, "serialPort"), platform, devs)
    IN  IF RejectsPattern(Get(cfg, "serialPort")) THEN <<>>
        ELSE IF Len(ports) = 0 THEN findAllSerialPorts(platform, devs)
        ELSE ports

\* findAndSelectPort() on the store S: choice is the item of the quick pick
\* the user takes when several ports are offered, 0 when they dismiss it.
findAndSelectPort(S, ws, platform, devs, choice, writeOk, cppOk) ==
    LET serialPort == Get(S.cfg, "serialPort")
        none == PortOutcome(Null, S, FALSE)
        select(selectedPort) ==
            IF Str(selectedPort) # serialPort
            THEN LET r == saveConfig([S EXCEPT !.cfg = Put(@, "serialPort", Str(selectedPort))],
                                     ws, platform, writeOk, cppOk)
                 IN  PortOutcome(Str(selectedPort), r.S, r.ret)
            ELSE PortOutcome(Str(selectedPort), S, FALSE)
        pick(ports) ==
            IF Len(ports) = 0 THEN none
            ELSE IF Len(ports) > 1
            THEN IF choice = 0 THEN none ELSE select(ports[choice])
            ELSE select(ports[1])
    IN  pick(offeredPorts(S.cfg, platform, devs))

\* smartMonitor() up to the start of the monitor: installed tells whether
\* Python and pyserial are there.
smartMonitor(S, ws, platform, devs, installed, choice, writeOk, cppOk) ==
    LET update(f) ==
            IF ~Truthy(f.port) THEN f
            ELSE IF f.port # Get(f.S.cfg, "serialPort")
            THEN LET r == saveConfig([f.S EXCEPT !.cfg = Put(@, "serialPort", f.port)],
                                     ws, platform, writeOk, cppOk)
                 IN  PortOutcome(f.port, r.S, r.ret)
            ELSE f
    IN  IF ~installed THEN PortOutcome(Null, S, FALSE)
        ELSE update(findAndSelectPort(S, ws, platform, devs, choice, writeOk, cppOk))

\* handleTerminalDisposed()
handleTerminalDisposed(M) ==
    IF M.isMonitoring
    THEN [M EXCEPT !.isMonitoring = FALSE, !.monitorTerminal = 0, !.monitorMode = Null]
    ELSE M

\* The dispose() that setupTerminalEventHandlers() gives terminal t: it
\* calls handleTerminalDisposed() and then closes the terminal, whose close
\* event follows later.
dispose(M, t) ==
    LET H == handleTerminalDisposed(M)
    IN  IF t \in H.open
        THEN [H EXCEPT !.open = @ \ {t}, !.closing = @ \cup {t}]
        ELSE H

\* stopMonitor() from the end of its 500 ms wait, or from its start when
\* there is no terminal: the terminal that is current now is disposed (a
\* null one raises a TypeError that is caught) and the fields are cleared.
stopMonitorEnd(M) ==
    LET D == IF M.monitorTerminal # 0
             THEN [dispose(M, M.monitorTerminal) EXCEPT !.monitorTerminal = 0]
             ELSE M
    IN  [D EXCEPT !.isMonitoring = FALSE, !.currentPort = Null, !.monitorMode = Null]

\* startMonitor(port, mode): the terminal is created and becomes the
\* current one; path.basename() throws for a port that is not a string and
\* startMonitor() returns false.
startMonitor(M, port, mode) ==
    IF ~IsString(port) THEN M
    ELSE [M EXCEPT !.created = M.created + 1,
                   !.open = @ \cup {M.created + 1},
                   !.monitorTerminal = M.created + 1,
                   !.isMonitoring = TRUE,
                   !.currentPort = port,
                   !.monitorMode = mode]

\* What a call does once its stopMonitor() has returned: stopMonitor() is
\* done, smartMonitor() starts the monitor, resetMonitor() waits a second.
afterStop(M, call) ==
    CASE call.name = "smartMonitor" ->
            [startMonitor(M, call.port, call.mode) EXCEPT !.call = NoMonitorCall]
      [] call.name = "resetMonitor" -> [M EXCEPT !.call = [call EXCEPT !.pc = "resetWait"]]
      [] OTHER -> [M EXCEPT !.call = NoMonitorCall]

\* A call reaches its stopMonitor(): with a terminal it sends Ctrl+C and
\* waits 500 ms, without one it goes on at once.
stopThen(M, call) ==
    IF M.monitorTerminal # 0
    THEN [M EXCEPT !.call = [call EXCEPT !.pc = "stopWait"]]
    ELSE afterStop(stopMonitorEnd(M), call)

\* The hosts: the platform and the device files, sorted.
Hosts ==
    { <<"linux", <<>> >>,
      <<"linux", <<"/dev/ttyUSB0">> >>,
      <<"linux", <<"/dev/ttyACM0", "/dev/ttyUSB0", "/dev/ttyUSB1">> >>,
      <<"linux", <<"/dev/ttyS0">> >>,
      <<"darwin", <<"/dev/cu.Bluetooth-usb", "/dev/cu.usbserial-1410">> >>,
      <<"darwin", <<"/dev/cu.usbserial-1410", "/dev/tty.usbserial-1410">> >> }

\* The serialPort values of .stm32-config.json.
SerialPortValues ==
    { Str("/dev/ttyACM*"), Str("*"), Str("/dev/ttyUSB1"), Str("/dev/tty.usb*"),
      Str(""), Num("3") }

SerialPortFiles ==
    {AbsentFile} \cup {TextFile(<<Member("serialPort", v)>>) : v \in SerialPortValues}

\* connectionManager.scanPorts()
ScanPorts(cppOk) ==
    \E writeOk \in WriteOutcomes :
        \E r \in {scanPorts(Cur, workspacePath, currentPlatform, devices, writeOk, cppOk)} :
            /\ Apply(r.S)
            /\ result' = Resolved("scanPorts", FALSE, r.port)
            /\ lastOp' = Op("scanPorts", "none", r.S.cfg # projectConfig, r.saved)
            /\ roundTrip' = NoRoundTrip
            /\ UNCHANGED <<hostVars, toolVars, iocConfig, fileVars, makefile, now, buildCall,
                           makefileCheck, renders>>

\* connectionManager.findAndSelectPort()
FindAndSelectPort(cppOk) ==
    \E writeOk \in WriteOutcomes,
       choice \in 0..Len(offeredPorts(projectConfig, currentPlatform, devices)) :
        \E r \in {findAndSelectPort(Cur, workspacePath, currentPlatform, devices,
                                    choice, writeOk, cppOk)} :
            /\ Apply(r.S)
            /\ result' = Resolved("findAndSelectPort", FALSE, r.port)
            /\ lastOp' = Op("findAndSelectPort", "none", r.S.cfg # projectConfig, r.saved)
            /\ roundTrip' = NoRoundTrip
            /\ UNCHANGED <<hostVars, toolVars, iocConfig, fileVars, makefile, now, buildCall,
                           makefileCheck, renders>>

\* The monitor terminals of one session.
MaxTerminals == 2

\* What selectMonitorMode() returns: the mode the user picks, here the
\* buffered one, or null when the user dismisses the list.
MonitorModes(M) ==
    IF M.created < MaxTerminals THEN {Str("buffered"), Null} ELSE {Null}

\* What a call of the monitor manager has returned: none while it waits.
MonitorRet(M) ==
    IF M.call.pc # "idle" THEN "none" ELSE Ret(M.isMonitoring)

\* smartMonitor() called with the monitor manager as M: it returns false
\* without a port or a mode; otherwise it stops the monitor, waiting while
\* a terminal is there, and starts the new one.
SmartMonitorFrom(M, cppOk) ==
    \E writeOk \in WriteOutcomes, installed \in BOOLEAN, mode \in MonitorModes(M),
       choice \in 0..Len(offeredPorts(projectConfig, currentPlatform, devices)) :
        \E r \in {smartMonitor(Cur, workspacePath, currentPlatform, devices,
                               installed, choice, writeOk, cppOk)} :
            /\ Apply(r.S)
            /\ result' = Resolved("smartMonitor", FALSE, r.port)
            /\ monitor' = IF Truthy(r.port) /\ mode # Null
                          THEN stopThen(M, [name |-> "smartMonitor", pc |-> "idle",
                                            port |-> r.port, mode |-> mode])
                          ELSE M
            /\ lastOp' = Op("smartMonitor",
                            IF Truthy(r.port) /\ mode # Null THEN MonitorRet(monitor')
                            ELSE "false",
                            r.S.cfg # projectConfig, r.saved)
            /\ roundTrip' = NoRoundTrip
            /\ UNCHANGED <<hostVars, flash, polling, iocConfig, fileVars, makefile, now,
                           buildCall, makefileCheck, renders>>

\* monitorManager.smartMonitor()
SmartMonitor(cppOk) ==
    /\ monitor.call.pc = "idle"
    /\ SmartMonitorFrom(monitor, cppOk)

\* The timer a call of the monitor manager waits at fires: stopMonitor()
\* goes on after its 500 ms, or resetMonitor() after its second, which
\* starts the monitor on the port it had or, without one, calls
\* smartMonitor().
MonitorResumes(cppOk) ==
    /\ monitor.call.pc # "idle"
    /\ IF monitor.call.pc = "resetWait" /\ ~Truthy(monitor.call.port)
       THEN SmartMonitorFrom([monitor EXCEPT !.call = NoMonitorCall], cppOk)
       ELSE /\ monitor' =
                 IF monitor.call.pc = "stopWait"
                 THEN afterStop(stopMonitorEnd(monitor), monitor.call)
                 ELSE [startMonitor(monitor, monitor.call.port,
                                    Or(monitor.call.mode, Str("standard")))
                          EXCEPT !.call = NoMonitorCall]
            /\ lastOp' = Op(monitor.call.name, MonitorRet(monitor'), FALSE, FALSE)
            /\ roundTrip' = NoRoundTrip
            /\ UNCHANGED <<hostVars, flash, polling, projectConfig, configFile, cppProps,
                           iocConfig, buildVars>>

\* A device is plugged in or pulled out.
Replug ==
    /\ \E h \in Hosts :
        /\ h[1] = currentPlatform
        /\ h[2] # devices
        /\ devices' = h[2]
    /\ lastOp' = Op("replug", "none", FALSE, FALSE)
    /\ roundTrip' = NoRoundTrip
    /\ UNCHANGED <<currentPlatform, workspacePath, iocFiles, disk, toolVars, projectConfig,
                   configFile, cppProps, iocConfig, buildVars>>

InitPorts ==
    /\ disk \in {"writable", "read-only"}
    /\ \E h \in Hosts, file \in SerialPortFiles :
        /\ devices = h[2]
        /\ flash = NoFlash
        /\ Activated(h[1], "ws", file, CppAbsent, <<>>, TRUE)
    /\ ldFiles = <<>>
    /\ startupFiles = <<>>

NextPorts ==
    \/ ScanPorts(TRUE)
    \/ FindAndSelectPort(TRUE)
    \/ SmartMonitor(TRUE)
    \/ MonitorResumes(TRUE)
    \/ ResetToDefaults(TRUE)
    \/ Replug

SpecPorts == InitPorts /\ [][NextPorts]_vars

---------------------------------------------------------------------------
(* The monitor: smartMonitor, monitor, resetMonitor and stopMonitor of the *)
(* MonitorManager, the terminals they open and dispose, and the close      *)
(* events of the window.  One call of the manager is in flight at a time.  *)

\* monitorManager.monitor()
Monitor(cppOk) ==
    /\ monitor.call.pc = "idle"
    /\ IF ~monitor.isMonitoring /\ ~Truthy(Get(projectConfig, "serialPort"))
       THEN SmartMonitorFrom(monitor, cppOk)
       ELSE /\ monitor.isMonitoring \/ monitor.created < MaxTerminals
            /\ monitor' = IF monitor.isMonitoring THEN monitor
                          ELSE startMonitor(monitor, Get(projectConfig, "serialPort"),
                                            Str("standard"))
            /\ lastOp' = Op("monitor", MonitorRet(monitor'), FALSE, FALSE)
            /\ roundTrip' = NoRoundTrip
            /\ UNCHANGED <<hostVars, flash, polling, projectConfig, configFile, cppProps,
                           iocConfig, buildVars>>

\* monitorManager.resetMonitor(), up to the timer it waits at.
ResetMonitor ==
    /\ monitor.call.pc = "idle"
    /\ monitor.created < MaxTerminals
    /\ monitor' = stopThen(monitor, [name |-> "resetMonitor", pc |-> "idle",
                                     port |-> monitor.currentPort,
                                     mode |-> monitor.monitorMode])
    /\ lastOp' = Op("resetMonitor", "none", FALSE, FALSE)
    /\ roundTrip' = NoRoundTrip
    /\ UNCHANGED <<hostVars, flash, polling, projectConfig, configFile, cppProps,
                   iocConfig, buildVars>>

\* monitorManager.stopMonitor(), up to its end or to the timer it waits at.
StopMonitor ==
    /\ monitor.call.pc = "idle"
    /\ monitor' = stopThen(monitor, [NoMonitorCall EXCEPT !.name = "stopMonitor"])
    /\ lastOp' = Op("stopMonitor", IF monitor'.call.pc = "idle" THEN "true" ELSE "none",
                    FALSE, FALSE)
    /\ roundTrip' = NoRoundTrip
    /\ UNCHANGED <<hostVars, flash, polling, projectConfig, configFile, cppProps,
                   iocConfig, buildVars>>

\* The user closes a monitor terminal of the window; its close event
\* follows later.
UserClosesTerminal ==
    /\ \E t \in monitor.open :
        monitor' = [monitor EXCEPT !.open = @ \ {t}, !.closing = @ \cup {t}]
    /\ lastOp' = Op("closeTerminal", "none", FALSE, FALSE)
    /\ roundTrip' = NoRoundTrip
    /\ UNCHANGED <<hostVars, flash, polling, projectConfig, configFile, cppProps,
                   iocConfig, buildVars>>

\* The window reports that terminal t was closed: the listener that
\* setupTerminalEventHandlers() registered for t calls
\* handleTerminalDisposed().  result keeps the terminal.
DidCloseTerminal ==
    /\ \E t \in monitor.closing :
        /\ monitor' = handleTerminalDisposed([monitor EXCEPT !.closing = @ \ {t}])
        /\ result' = Resolved("onDidCloseTerminal", FALSE, <<t>>)
    /\ lastOp' = Op("didCloseTerminal", "none", FALSE, FALSE)
    /\ roundTrip' = NoRoundTrip
    /\ UNCHANGED <<hostVars, flash, polling, projectConfig, configFile, cppProps,
                   iocConfig, fileVars, makefile, now, buildCall, makefileCheck, renders>>

\* The .stm32-config.json files of the monitor: the default port, no port,
\* a number for a port.
MonitorFiles ==
    {AbsentFile} \cup {TextFile(<<Member("serialPort", v)>>) : v \in {Str(""), Num("3")}}

InitMonitor ==
    /\ disk = "writable"
    /\ devices \in {<<>>, <<"/dev/ttyUSB0">>}
    /\ flash = NoFlash
    /\ \E file \in MonitorFiles :
        Activated("linux", "ws", file, CppAbsent, <<>>, TRUE)
    /\ ldFiles = <<>>
    /\ startupFiles = <<>>

NextMonitor ==
    \/ SmartMonitor(TRUE)
    \/ Monitor(TRUE)
    \/ ResetMonitor
    \/ StopMonitor
    \/ MonitorResumes(TRUE)
    \/ UserClosesTerminal
    \/ DidCloseTerminal

SpecMonitor == InitMonitor /\ [][NextMonitor]_vars

---------------------------------------------------------------------------
(* The .ioc descriptor on its own: loadIOCConfig() over the .ioc files and *)
(* the configurations of a workspace.                                      *)

\* configManager.loadIOCConfig()
LoadIOCConfig ==
    \E l \in {loadIOCConfig(iocConfig, projectConfig, iocFiles, workspacePath)} :
        /\ projectConfig' = l.cfg
        /\ iocConfig' = l.ioc
        /\ lastOp' = Op("loadIOCConfig", Ret(l.ioc.loaded), l.cfg # projectConfig, FALSE)
        /\ roundTrip' = NoRoundTrip
        /\ UNCHANGED <<hostVars, toolVars, configFile, cppProps, buildVars>>

\* STM32CubeMX, or the user, writes or removes the .ioc files of the
\* workspace root.
ExternalIocChange ==
    /\ \E files \in IocFileLists :
        /\ files # iocFiles
        /\ iocFiles' = files
    /\ lastOp' = Op("external", "none", FALSE, FALSE)
    /\ roundTrip' = NoRoundTrip
    /\ UNCHANGED <<currentPlatform, workspacePath, disk, toolVars, devices, projectConfig,
                   configFile, cppProps, iocConfig, buildVars>>

InitIoc ==
    /\ disk = "writable"
    /\ devices = <<>>
    /\ flash = NoFlash
    /\ \E ws \in {"ws", "none"}, file \in UserConfigFiles, files \in IocFileLists :
        Activated("linux", ws, file, CppAbsent, files, TRUE)
    /\ ldFiles = <<>>
    /\ startupFiles = <<>>

NextIoc ==
    \/ LoadIOCConfig
    \/ ExternalIocChange
    \/ LoadConfig(TRUE)
    \/ ResetToDefaults(TRUE)

SpecIoc == InitIoc /\ [][NextIoc]_vars

---------------------------------------------------------------------------
(* The flash history: addToHistory() and clearFlashHistory() called for    *)
(* histories of many lengths, on disks that take the history file or not.  *)

\* The addToHistory() calls of one session.
MaxAdded == 3

\* The entries of a history file the extension wrote before: n entries,
\* each with its time stamp and its success flag.
WrittenEntries(n) == [i \in 1..n |-> <<i, TRUE>>]

HistoryFiles ==
    {NoHistoryFile, CorruptHistoryFile}
        \cup {HistoryFile(WrittenEntries(n)) : n \in {1, HistoryLimit - 1, HistoryLimit}}

\* flashManager.addToHistory(entry), as flashFirmware() calls it after a
\* flash that succeeded or failed.
AddToHistory ==
    /\ flash.added < MaxAdded
    /\ \E success \in BOOLEAN, writeOk \in WriteOutcomes :
        flash' = addToHistory(flash, <<HistoryLimit + flash.added + 1, success>>,
                              workspacePath, writeOk)
    /\ lastOp' = Op("addToHistory", "none", TRUE, flash'.file # flash.file)
    /\ roundTrip' = NoRoundTrip
    /\ UNCHANGED <<hostVars, monitor, polling, projectConfig, configFile, cppProps,
                   iocConfig, buildVars>>

\* The answers to a modal warning: its two buttons, or undefined when the
\* user dismisses it.
Answers(button) == {Str(button), Str("Cancel"), Undefined}

\* flashManager.clearFlashHistory(); result keeps the user's answer.
ClearFlashHistory ==
    /\ \E answer \in Answers("Clear") :
        /\ flash' = clearFlashHistory(flash, answer)
        /\ result' = Resolved("showWarningMessage", FALSE, answer)
    /\ lastOp' = Op("clearFlashHistory", "none", flash' # flash, FALSE)
    /\ roundTrip' = NoRoundTrip
    /\ UNCHANGED <<hostVars, monitor, polling, projectConfig, configFile, cppProps,
                   iocConfig, fileVars, makefile, now, buildCall, makefileCheck, renders>>

InitHistory ==
    /\ disk \in {"writable", "read-only"}
    /\ devices = <<>>
    /\ \E ws \in {"ws", "none"}, file \in HistoryFiles :
        /\ Activated("linux", ws, AbsentFile, CppAbsent, <<>>, TRUE)
        /\ flash = loadHistoryFromFile([NoFlash EXCEPT !.file = file], ws)
    /\ ldFiles = <<>>
    /\ startupFiles = <<>>

NextHistory ==
    \/ AddToHistory
    \/ ClearFlashHistory
    \/ updateWorkspace(TRUE)

SpecHistory == InitHistory /\ [][NextHistory]_vars

---------------------------------------------------------------------------
(* Flashing: upload, uploadAndMonitor and flashLatestBuild over the        *)
(* workspaces of the build manager, and eraseFlash.                        *)

FlashCalls == {"upload", "uploadAndMonitor", "flashLatestBuild"}

\* The flashes of one session that reach the programmer.
MaxFlashed == 1

\* stm32.upload, stm32.uploadAndMonitor, stm32.flashLatestBuild: the call
\* up to the end of build() or to the prompt build() waits at.
StartFlash ==
    /\ flash.call.pc = "idle"
    /\ flash.added < MaxFlashed
    /\ \E name \in FlashCalls : BuildFor(name, Calling(flash, name))

\* The user answers the modal question of flashFirmware().
ConfirmFlash ==
    /\ flash.call.pc = "confirm"
    /\ \E answer \in Answers("Flash"), cmdOk \in BOOLEAN, writeOk \in WriteOutcomes :
        flash' = confirmFlash(flash, answer, cmdOk, workspacePath, writeOk)
    /\ lastOp' = Op("flashFirmware", flash'.call.ret, FALSE, FALSE)
    /\ roundTrip' = NoRoundTrip
    /\ UNCHANGED <<hostVars, monitor, polling, projectConfig, configFile, cppProps,
                   iocConfig, buildVars>>

\* The user answers the error message of handleFlashError(): the rebuild
\* it offers for a file error calls build() without awaiting it.
HandleFlashError ==
    /\ flash.call.pc = "flashError"
    /\ \E choice \in {"Open output", "Rebuild project", "Dismissed"} :
        IF choice = "Rebuild project"
        THEN BuildFor("build", FlashReturned(flash, "false", <<>>))
        ELSE /\ flash' = FlashReturned(flash, "false", <<>>)
             /\ lastOp' = Op("handleFlashError", "none", FALSE, FALSE)
             /\ roundTrip' = NoRoundTrip
             /\ UNCHANGED <<hostVars, monitor, polling, projectConfig, configFile, cppProps,
                            iocConfig, buildVars>>

\* stm32.eraseFlash; result keeps the user's answer, whether the programmer
\* binary exists and whether its command would succeed.
EraseFlash ==
    /\ \E answer \in Answers("Erase"), programmer \in BOOLEAN, cmdOk \in BOOLEAN :
        \E r \in {eraseFlash(answer, programmer, cmdOk)} :
            /\ result' = Resolved("eraseFlash", FALSE,
                                  <<answer, Bool(programmer), Bool(cmdOk)>>)
            /\ lastOp' = [Op("eraseFlash", Ret(r.ret), FALSE, FALSE) EXCEPT
                              !.events = r.events]
    /\ roundTrip' = NoRoundTrip
    /\ UNCHANGED <<hostVars, toolVars, projectConfig, configFile, cppProps, iocConfig,
                   fileVars, makefile, now, buildCall, makefileCheck, renders>>

InitFlash ==
    /\ disk = "writable"
    /\ devices = <<>>
    /\ flash = NoFlash
    /\ \E ws \in {"ws", "none"}, file \in BuildConfigFiles :
        Activated("linux", ws, file, CppAbsent, <<>>, TRUE)
    /\ \E w \in Workspaces :
        /\ ldFiles = w[1]
        /\ startupFiles = w[2]

NextFlash ==
    \/ StartFlash
    \/ HandleMissingLinker
    \/ HandleMissingStartup
    \/ ConfirmFlash
    \/ HandleFlashError
    \/ EraseFlash
    \/ AddLinkerFile

SpecFlash == InitFlash /\ [][NextFlash]_vars

---------------------------------------------------------------------------
(* The ConnectionManager: testPortConnection over what the probe commands  *)
(* print, and the port monitoring timer with its polls.                    *)

\* What the commands of testSerialPort() can do: whether stty succeeds for a
\* numeric baud rate, and what powershell or the Python test prints.
ProbeOutcomes == [stty : BOOLEAN, stdout : {"", "True", "False", "OK", "ERROR"}]

\* The value testSerialPort(port, baudRate) resolves with.  Without a baud
\* rate the stty command and the Python test get the text undefined and
\* fail.
testSerialPort(port, baudRate, platform, out) ==
    IF platform = "win32"
    THEN IF out.stdout = "" THEN Str("") ELSE Bool(out.stdout = "True")
    ELSE IF baudRate # Undefined /\ out.stty THEN Bool(TRUE)
    ELSE IF out.stdout = "" THEN Str("")
    ELSE Bool(baudRate # Undefined /\ out.stdout = "OK")

\* result.success of what testSerialPort() resolved with: a boolean and a
\* string have no such property.
successOf(res) ==
    IF res \in {Bool(TRUE), Bool(FALSE), Str("")} THEN Undefined ELSE Get(res, "success")

\* testPortConnection(port): the boolean it returns.
testPortConnection(port, cfg, platform, out) ==
    LET targetPort == Or(port, Get(cfg, "serialPort"))
    IN  IF ~Truthy(targetPort) THEN FALSE
        ELSE IF ~IsString(targetPort) /\ platform = "win32" THEN FALSE
        ELSE Truthy(successOf(testSerialPort(targetPort, Undefined, platform, out)))

\* The hosts of the connection manager and their serial devices.
ConnectionHosts ==
    { <<"linux", <<>> >>,
      <<"linux", <<"/dev/ttyUSB0">> >>,
      <<"linux", <<"/dev/ttyACM0", "/dev/ttyUSB0">> >>,
      <<"win32", <<>> >>,
      <<"win32", <<"COM3">> >> }

\* The .stm32-config.json files of these hosts: none, or one with a port.
ConnectionFiles ==
    {AbsentFile} \cup {TextFile(<<Member("serialPort", v)>>) : v \in {Str(""), Num("3")}}

\* The ports a caller passes to testPortConnection().
PortArguments == {Null, Str("/dev/ttyUSB0"), Str("COM3")}

\* The timers one session creates.
MaxTimers == 2

\* connectionManager.testPortConnection(port)
TestPortConnection ==
    \E port \in PortArguments, out \in ProbeOutcomes :
        \E target \in {Or(port, Get(projectConfig, "serialPort"))} :
            /\ result' = IF Truthy(target)
                          THEN Resolved("testSerialPort", ~IsString(target) /\ currentPlatform = "win32",
                                        testSerialPort(target, Undefined, currentPlatform, out))
                          ELSE NoResult
            /\ lastOp' = Op("testPortConnection",
                            Ret(testPortConnection(port, projectConfig, currentPlatform, out)),
                            FALSE, FALSE)
            /\ roundTrip' = NoRoundTrip
            /\ UNCHANGED <<hostVars, toolVars, projectConfig, configFile, cppProps, iocConfig,
                           fileVars, makefile, now, buildCall, makefileCheck, renders>>

\* connectionManager.startPortMonitoring(callback): callback tells whether
\* the caller passed one.
StartPortMonitoring ==
    /\ polling.timers < MaxTimers
    /\ \E callback \in BOOLEAN :
        polling' = [polling EXCEPT
                       !.portMonitoringInterval = polling.timers + 1,
                       !.timers = polling.timers + 1,
                       !.active = (polling.active \ {polling.portMonitoringInterval})
                                      \cup {polling.timers + 1},
                       !.callback = Append(polling.callback, callback),
                       !.previousPorts = Append(polling.previousPorts, <<>>)]
    /\ lastOp' = Op("startPortMonitoring", "timer", FALSE, FALSE)
    /\ roundTrip' = NoRoundTrip
    /\ UNCHANGED <<hostVars, monitor, flash, projectConfig, configFile, cppProps, iocConfig,
                   buildVars>>

\* connectionManager.stopPortMonitoring()
StopPortMonitoring ==
    /\ polling' = IF polling.portMonitoringInterval # 0
                  THEN [polling EXCEPT
                           !.portMonitoringInterval = 0,
                           !.active = polling.active \ {polling.portMonitoringInterval}]
                  ELSE polling
    /\ lastOp' = Op("stopPortMonitoring", "none", FALSE, FALSE)
    /\ roundTrip' = NoRoundTrip
    /\ UNCHANGED <<hostVars, monitor, flash, projectConfig, configFile, cppProps, iocConfig,
                   buildVars>>

\* A timer that was not cleared fires: its callback starts and awaits
\* findAllSerialPorts().  One poll of a timer is in flight at a time.
PortTimerFires ==
    /\ \E t \in polling.active \ polling.polls :
        polling' = [polling EXCEPT !.polls = polling.polls \cup {t}]
    /\ lastOp' = Op("portTimer", "none", FALSE, FALSE)
    /\ roundTrip' = NoRoundTrip
    /\ UNCHANGED <<hostVars, monitor, flash, projectConfig, configFile, cppProps, iocConfig,
                   buildVars>>

\* The ports that are in one list and not in the other.
portsNotIn(ports, others) ==
    SelectSeq(ports, LAMBDA p : \A i \in DOMAIN others : others[i] # p)

\* findAllSerialPorts() resolves and the poll of timer t goes on: it
\* compares the ports with those of the timer's last poll and calls the
\* callback when they differ.
PortPollResumes ==
    /\ \E t \in polling.polls :
        \E currentPorts \in {findAllSerialPorts(currentPlatform, devices)} :
            \E added \in {portsNotIn(currentPorts, polling.previousPorts[t])},
               removed \in {portsNotIn(polling.previousPorts[t], currentPorts)} :
                /\ polling' = [polling EXCEPT !.polls = polling.polls \ {t},
                                              !.previousPorts[t] = currentPorts]
                /\ lastOp' = [Op("portPoll", "none", FALSE, FALSE) EXCEPT
                                  !.events = IF (added # <<>> \/ removed # <<>>)
                                                /\ polling.callback[t]
                                             THEN <<"callback">> \o added \o removed
                                             ELSE <<>>]
    /\ roundTrip' = NoRoundTrip
    /\ UNCHANGED <<hostVars, monitor, flash, projectConfig, configFile, cppProps, iocConfig,
                   buildVars>>

\* A serial device is plugged in or pulled out.
PortsChange ==
    /\ \E h \in ConnectionHosts :
        /\ h[1] = currentPlatform
        /\ h[2] # devices
        /\ devices' = h[2]
    /\ lastOp' = Op("replug", "none", FALSE, FALSE)
    /\ roundTrip' = NoRoundTrip
    /\ UNCHANGED <<currentPlatform, workspacePath, iocFiles, disk, toolVars, projectConfig,
                   configFile, cppProps, iocConfig, buildVars>>

InitConnection ==
    /\ disk = "writable"
    /\ \E h \in ConnectionHosts, file \in ConnectionFiles :
        /\ devices = h[2]
        /\ flash = NoFlash
        /\ Activated(h[1], "ws", file, CppAbsent, <<>>, TRUE)
    /\ ldFiles = <<>>
    /\ startupFiles = <<>>

NextConnection ==
    \/ TestPortConnection
    \/ StartPortMonitoring
    \/ StopPortMonitoring
    \/ PortTimerFires
    \/ PortPollResumes
    \/ PortsChange

SpecConnection == InitConnection /\ [][NextConnection]_vars

---------------------------------------------------------------------------
(* Claims about the configuration store *)

\* The object a file's text parses to; no object when it is absent or invalid.
Persisted(file) == IF file.kind = "text" THEN JSONParse(file.text) ELSE EmptyObject

\* Both objects have the same fields with the same values.
SameFields(a, b) ==
    /\ DOMAIN a = DOMAIN b
    /\ \A k \in DOMAIN a : a[k] = b[k]

\* The operations that change projectConfig: the .ioc load of the
\* constructor, the .ioc reload, the reset and the settings edits.
MutationOps == {"constructor", "reloadIOCConfig", "resetToDefaults", "changeBaudRate"}

\* C2: after an operation that changed projectConfig, .stm32-config.json
\* holds the same field values as the in-memory projectConfig.
C2_EveryMutationPersisted ==
    (lastOp.name \in MutationOps /\ lastOp.changed)
        => /\ configFile.kind = "text"
           /\ SameFields(Persisted(configFile), projectConfig)

\* The constructor took values from the .ioc descriptor and no file holds them.
C2_UnsavedIocLoad ==
    /\ lastOp.name = "constructor"
    /\ lastOp.changed
    /\ projectConfig.mcu = Str("STM32F103C8Tx")
    /\ configFile = AbsentFile

ReloadOps == {"constructor", "saveListener", "updateWorkspace"}

\* The value the first .ioc file of the workspace root gives a key, when it
\* defines the key with a value.
IocDefines(key) ==
    /\ workspacePath # "none"
    /\ Len(iocFiles) > 0
    /\ Truthy(Get(parseIOCFile(iocFiles[1]), key))

IocValue(key) == parseIOCFile(iocFiles[1])[key]

\* C4: after an operation that loaded the configuration again, mcu and
\* projectName hold the values of the .ioc descriptor that defines them.
C4_IocLayerOnTop ==
    (lastOp.name \in ReloadOps \/ lastOp.saved)
        => /\ IocDefines("Mcu.CPN") => projectConfig.mcu = IocValue("Mcu.CPN")
           /\ IocDefines("ProjectManager.ProjectName")
                 => projectConfig.projectName = IocValue("ProjectManager.ProjectName")

\* The save listener reloaded the configuration of a workspace whose .ioc
\* file names another MCU than the one projectConfig now holds.
C4_ReloadDroppedIoc ==
    /\ lastOp.name = "saveListener"
    /\ IocDefines("Mcu.CPN")
    /\ projectConfig.mcu = getDefaultConfig(currentPlatform).mcu
    /\ IocValue("Mcu.CPN") # projectConfig.mcu

\* C10: loadConfig on a file holding a JSON object gives every key of the
\* file the file's value and every other default key its default value.
C10_MergePrecedence ==
    (/\ lastOp.name \in {"loadConfig", "saveListener", "updateWorkspace"}
     /\ workspacePath # "none"
     /\ configFile.kind = "text")
        => LET parsed == JSONParse(configFile.text)
               defaults == getDefaultConfig(currentPlatform)
           IN  /\ \A k \in DOMAIN parsed : Get(projectConfig, k) = parsed[k]
               /\ \A k \in DOMAIN defaults \ DOMAIN parsed :
                      Get(projectConfig, k) = defaults[k]

\* loadConfig merged a file that overrides mcu and leaves the other keys out.
C10_PartialOverrideLoaded ==
    /\ lastOp.name = "loadConfig"
    /\ workspacePath # "none"
    /\ configFile = TextFile(<<Member("mcu", Str("STM32F103C8Tx"))>>)
    /\ projectConfig.mcu = Str("STM32F103C8Tx")
    /\ projectConfig.baudRate = Num("115200")

\* C12: loadConfig on a .stm32-config.json that is not valid JSON does not
\* throw and leaves projectConfig equal to getDefaultConfig().
C12_InvalidFileGivesDefaults ==
    (/\ lastOp.name \in {"loadConfig", "saveListener", "updateWorkspace"}
     /\ workspacePath # "none"
     /\ configFile = InvalidFile)
        => /\ lastOp.ret # "threw"
           /\ projectConfig = getDefaultConfig(currentPlatform)

\* The user saved text that is not JSON over a configuration that differed
\* from the defaults, and the listener loaded the defaults.
C12_DefaultsAfterBrokenSave ==
    /\ lastOp.name = "saveListener"
    /\ lastOp.changed
    /\ configFile = InvalidFile
    /\ projectConfig = getDefaultConfig(currentPlatform)

\* C13: saveConfig does not throw; it returns false and leaves
\* .stm32-config.json as it was when the file cannot be written or no
\* workspace is open, and when it returns true the file holds the
\* serialized projectConfig.
C13_SaveReportsWrite ==
    [][lastOp'.name = "saveConfig"
          => /\ lastOp'.ret \in {"true", "false"}
             /\ (disk = "read-only" \/ workspacePath = "none")
                   => (lastOp'.ret = "false" /\ configFile' = configFile)
             /\ lastOp'.ret = "false" => configFile' = configFile
             /\ lastOp'.ret = "true"
                   => configFile' = serializedConfig(projectConfig)]_vars

\* saveConfig returned false on a read-only disk, with a linker script in
\* projectConfig that no file holds.
C13_SaveFailedOnReadOnlyDisk ==
    /\ lastOp.name = "saveConfig"
    /\ lastOp.ret = "false"
    /\ disk = "read-only"
    /\ workspacePath # "none"
    /\ Truthy(Get(projectConfig, "ldscript"))
    /\ configFile = AbsentFile

\* C6: when saveConfig has returned true, the first configuration of
\* c_cpp_properties.json has the includePath of the current includeDirs,
\* each entry behind ${workspaceFolder}/ and in the same order.
C6_IncludePathFollowsSave ==
    (lastOp.name = "saveConfig" /\ lastOp.ret = "true")
        => /\ cppProps.kind = "object"
           /\ "configurations" \in DOMAIN cppProps.obj
           /\ Len(cppProps.obj.configurations) > 0
           /\ IsArr(Get(projectConfig, "includeDirs"))
           /\ Get(cppProps.obj.configurations[1], "includePath")
                 = Arr(WorkspaceFolder(Items(projectConfig.includeDirs)))

\* saveConfig returned true in a workspace whose c_cpp_properties.json held
\* text that is not JSON: the file now holds an object without
\* configurations.
C6_SavedOverInvalidFile ==
    /\ lastOp.name = "saveConfig"
    /\ lastOp.ret = "true"
    /\ cppProps = CppObject(EmptyObject)

---------------------------------------------------------------------------
(* Claims about the build manager *)

\* Both values are null, or both are set.
BothNullOrBothSet(a, b) ==
    \/ a = Null /\ b = Null
    \/ IsString(a) /\ Truthy(a) /\ IsString(b) /\ Truthy(b)

\* C5: from the default configuration on, ldscript and ldscriptPath are
\* both null or both set, and so are startupFile and startupFilePath.
C5_PairsSetTogether ==
    /\ BothNullOrBothSet(Get(projectConfig, "ldscript"), Get(projectConfig, "ldscriptPath"))
    /\ BothNullOrBothSet(Get(projectConfig, "startupFile"),
                         Get(projectConfig, "startupFilePath"))

\* The reset of handleBuildError() took the linker script out of a
\* configuration that keeps its startup file.
C5_LinkerResetAfterError ==
    /\ lastOp.name = "handleBuildError"
    /\ lastOp.changed
    /\ projectConfig.ldscript = Null
    /\ projectConfig.ldscriptPath = Null
    /\ Truthy(projectConfig.startupFile)
    /\ Truthy(projectConfig.startupFilePath)

MakeCommands == {"make clean", "make -j4", "make"}

MarkedInitialized ==
    \/ Truthy(Get(projectConfig, "configInitialized"))
    \/ Truthy(Get(Persisted(configFile), "configInitialized"))

BothPairsSet(cfg) == ~LinkerMissing(cfg) /\ ~StartupMissing(cfg)

\* C22: a build() step on a writable disk whose checkProjectFiles() starts
\* with neither a linker script nor a startup file in the configuration,
\* and whose resolvers find both, has checkProjectFiles() return true and
\* leaves both pairs set in projectConfig and in .stm32-config.json.
C22_FoundFilesStayConfigured ==
    [][(/\ lastOp'.name = "build"
        /\ workspacePath # "none"
        /\ disk = "writable"
        /\ ~Truthy(Get(projectConfig, "ldscript"))
        /\ ~Truthy(Get(projectConfig, "ldscriptPath"))
        /\ ~Truthy(Get(projectConfig, "startupFile"))
        /\ ~Truthy(Get(projectConfig, "startupFilePath"))
        /\ findLinkerScript(projectConfig, workspacePath, ldFiles).found
        /\ findStartupFile(projectConfig, workspacePath, startupFiles).found)
          => /\ \E i \in DOMAIN lastOp'.events :
                   lastOp'.events[i] = "checkProjectFiles true"
             /\ BothPairsSet(projectConfig')
             /\ BothPairsSet(Persisted(configFile'))]_vars

\* A build() whose checkProjectFiles() returned true left, on a writable
\* disk, the linker script in projectConfig and in the file and no startup
\* file in either, although the resolver finds one.
C22_StartupFileLost ==
    /\ lastOp.name = "build"
    /\ lastOp.events # <<>>
    /\ lastOp.events[1] = "checkProjectFiles true"
    /\ disk = "writable"
    /\ ~LinkerMissing(projectConfig)
    /\ ~LinkerMissing(Persisted(configFile))
    /\ projectConfig.startupFile = Null
    /\ projectConfig.startupFilePath = Null
    /\ ~Truthy(Get(Persisted(configFile), "startupFilePath"))
    /\ findStartupFile(projectConfig, workspacePath, startupFiles).found

---------------------------------------------------------------------------
(* Claims about the Makefile generator *)

\* The Makefile holds the line.
MakefileHas(line) == \E i \in DOMAIN makefile.text : makefile.text[i] = line

\* C1: two generateContent calls with the same projectName, startupFile,
\* ldscript, mcuParams and projectConfig return the same text, whenever
\* they are made.
C1_SameArgumentsSameText ==
    \A i \in DOMAIN renders : \A j \in DOMAIN renders :
        renders[i][1] = renders[j][1] => renders[i][2] = renders[j][2]

\* generateContent was called twice with the same arguments.
C1_RenderedTwice ==
    /\ Len(renders) = 2
    /\ renders[1][1] = renders[2][1]

\* The startup file and the linker script the configuration now names, as
\* the generator resolves them.
ExpectedStartup ==
    Or(Get(projectConfig, "startupFile"),
       Str(getMCUParams(projectConfig, Get(projectConfig, "mcu")).startupFile))[2]
ExpectedLdscript == Or(Get(projectConfig, "ldscript"), Str(FallbackLdscript))[2]

\* The Makefile refers to the startup file and the linker script the
\* configuration now names.
MakefileMatchesConfig ==
    /\ MakefileHas("\t" \o ExpectedStartup \o ".s")
    /\ MakefileHas("LDSCRIPT = " \o ExpectedLdscript)

\* C7: checkMakefile on an existing Makefile returns upToDate = true when
\* the Makefile refers to the startup file and linker script of the current
\* configuration, and otherwise upToDate = false with details that carry
\* the current and the expected values.
C7_CheckReportsDrift ==
    (lastOp.name = "checkMakefile" /\ makefile.exists)
        => /\ ~makefileCheck.threw
           /\ makefileCheck.upToDate <=> MakefileMatchesConfig
           /\ ~MakefileMatchesConfig
                 => /\ makefileCheck.details.expectedStartup = ExpectedStartup
                    /\ makefileCheck.details.expectedLdscript = ExpectedLdscript
                    /\ makefileCheck.details.currentStartup # ""
                    /\ makefileCheck.details.currentLdscript # ""

\* checkMakefile was called on a Makefile generated for another MCU than the
\* configuration now names.
C7_StaleMakefileChecked ==
    /\ lastOp.name = "checkMakefile"
    /\ makefile.exists
    /\ MakefileHas("\tstartup_stm32f407xx.s")
    /\ ExpectedStartup = "startup_stm32f103xe"

\* C9: the LDSCRIPT line of a written Makefile names a linker script of the
\* workspace: one the resolver can find or the user can select.
C9_NoFabricatedLinker ==
    makefile.exists
        => \E i \in DOMAIN ldFiles :
               MakefileHas("LDSCRIPT = " \o Join(Basename(Chars(ldFiles[i]))))

\* A Makefile was written for a workspace without linker scripts and a
\* configuration that names none.
C9_WrittenWithoutLinker ==
    /\ makefile.exists
    /\ lastOp.name = "generate"
    /\ ldFiles = <<>>
    /\ Get(projectConfig, "ldscript") = Null

---------------------------------------------------------------------------
(* Claims about the resolvers *)

\* The families of the MCU table, in the order they are tried.
McuFamilies ==
    << "STM32F407", "STM32F401", "STM32F411", "STM32F103", "STM32F303",
       "STM32F030", "STM32G0", "STM32L4", "STM32H7" >>

\* The first family whose name occurs in the MCU name, letter case
\* observed; STM32F407 when none does.
FamilyOf(mcu) ==
    LET hits == First({i \in DOMAIN McuFamilies :
                          IndexOf(Chars(mcu), Chars(McuFamilies[i])) # 0})
    IN  IF hits = {} THEN "STM32F407" ELSE McuFamilies[CHOOSE i \in hits : TRUE]

\* C11: getMCUParams of a non-empty string returns, and never null or
\* undefined, the parameter set of the first family of the table whose name
\* occurs in the string, and the STM32F407 set when none does; for
\* STM32F407VGTx the define is STM32F407xx, the startup file
\* startup_stm32f407xx and the floating point flags are the hardware ones.
C11_FirstFamilyWins ==
    (/\ result.name = "getMCUParams"
     /\ IsString(Get(projectConfig, "mcu"))
     /\ projectConfig.mcu # Str(""))
        => /\ ~result.threw
           /\ DOMAIN result.value
                 = {"cpu", "fpu", "floatAbi", "startupFile", "define", "series"}
           /\ IndexOf(Chars(result.value.define),
                      Chars(FamilyOf(projectConfig.mcu[2]))) # 0
           /\ IndexOf(Chars(result.value.startupFile),
                      toLowerCase(Chars(FamilyOf(projectConfig.mcu[2])))) # 0
           /\ projectConfig.mcu = Str("STM32F407VGTx")
                 => /\ result.value.define = "STM32F407xx"
                    /\ result.value.startupFile = "startup_stm32f407xx"
                    /\ result.value.fpu = "-mfpu=fpv4-sp-d16"
                    /\ result.value.floatAbi = "-mfloat-abi=hard"

\* getMCUParams was called for a name that holds STM32F103 before STM32F407
\* and returned the STM32F407 set, the earlier entry of the table.
C11_EarlierEntryReturned ==
    /\ result.name = "getMCUParams"
    /\ projectConfig.mcu = Str("STM32F103xx-STM32F407xx")
    /\ result.value.define = "STM32F407xx"

\* A path holds one of the two tokens of an MCU, the startup file name or
\* the define in lower case without its xx, whatever the letter case of the
\* path.
HoldsStartupToken(path, mcuParams) ==
    LET lower == toLowerCase(Chars(path))
    IN  \/ IndexOf(lower, toLowerCase(Chars(mcuParams.startupFile))) # 0
        \/ IndexOf(lower, ReplaceFirst(toLowerCase(Chars(mcuParams.define)),
                                       Chars("xx"), <<>>)) # 0

\* C15: when none of the standard places holds the startup file,
\* findStartupFile returns null if the search finds nothing, and otherwise
\* a found file whose path holds, letter case ignored, the startup file
\* name or the define token of the MCU, or the first found file when no
\* found file holds one.
C15_StartupTokenIgnoresCase ==
    (/\ result.name = "findStartupFile"
     /\ workspacePath # "none"
     /\ IsString(Get(projectConfig, "mcu")))
        => LET mcuParams == getMCUParams(projectConfig, projectConfig.mcu)
               paths == startupPaths(mcuParams)
               all == searchStartupFiles(startupFiles, mcuParams.series)
               holders == {i \in DOMAIN all : HoldsStartupToken(all[i], mcuParams)}
           IN  (\A i \in DOMAIN paths : \A j \in DOMAIN startupFiles :
                    startupFiles[j] # paths[i])
                  => IF all = <<>> THEN result.value = NotFound
                     ELSE /\ result.value.found
                          /\ IF holders # {}
                             THEN \E i \in holders : result.value.path = all[i]
                             ELSE result.value.path = all[1]

\* findStartupFile was called for STM32F407VGTx in a workspace whose
\* startup file of the MCU is named in capitals, and returned the other
\* file.
C15_CapitalsNotMatched ==
    /\ result.name = "findStartupFile"
    /\ projectConfig.mcu = Str("STM32F407VGTx")
    /\ startupFiles = <<"/ws/src/startup_generic.s", "/ws/src/startup_STM32F407xx.s">>
    /\ result.value = Found("startup_generic", "/ws/src/startup_generic.s")

\* A found linker script is the one wanted for an MCU name: its basename
\* is the expected linker name, or its path holds that name without ".ld".
IsExpectedLinker(path, mcuName) ==
    LET expected == getExpectedLinkerName(mcuName)
    IN  \/ Basename(Chars(path)) = expected
        \/ IndexOf(Chars(path), SubSeq(expected, 1, Len(expected) - 3)) # 0

IsLinkerScriptFile(path) ==
    /\ IndexOf(Chars(path), Chars("/node_modules/")) = 0
    /\ \/ EndsWith(Chars(path), Chars(".ld"))
       \/ EndsWith(Chars(path), Chars(".LD"))

\* C17: findLinkerScript returns null when there is no workspace folder or
\* no file of the workspace matches a pattern of its search, and what it
\* returns otherwise is null or a file of the workspace that matches one.
C17_NoLinkerScriptIsNull ==
    result.name = "findLinkerScript"
        => /\ (\/ workspacePath = "none"
               \/ \A i \in DOMAIN ldFiles : ~IsLinkerScriptFile(ldFiles[i]))
                 => result.value = NotFound
           /\ result.value # NotFound
                 => /\ result.value.found
                    /\ \E i \in DOMAIN ldFiles :
                          /\ ldFiles[i] = result.value.path
                          /\ IsLinkerScriptFile(ldFiles[i])

\* findLinkerScript was called in a workspace whose only linker script lies
\* under node_modules, and returned null.
C17_OnlyNodeModulesScript ==
    /\ result.name = "findLinkerScript"
    /\ workspacePath # "none"
    /\ ldFiles = <<"/ws/README.md", "/ws/node_modules/dep/STM32F407VGT_FLASH.ld">>
    /\ result.value = NotFound

\* C30: getExpectedLinkerName returns STM32F407VG_FLASH.ld for
\* STM32F407VGT6, STM32F407XX_FLASH.ld for an empty name, and the name
\* followed by _FLASH.ld for a name that holds no STM32F.
C30_ExpectedLinkerNames ==
    (result.name = "getExpectedLinkerName" /\ ~result.threw)
        => /\ projectConfig.mcu = Str("STM32F407VGT6")
                 => result.value = "STM32F407VG_FLASH.ld"
           /\ ~Truthy(projectConfig.mcu)
                 => result.value = "STM32F407XX_FLASH.ld"
           /\ (/\ Truthy(projectConfig.mcu)
               /\ IndexOf(Chars(projectConfig.mcu[2]), Chars("STM32F")) = 0)
                 => result.value = projectConfig.mcu[2] \o "_FLASH.ld"

\* getExpectedLinkerName was called for STM32F407VGT6 and returned the name
\* with the package letter T in it.
C30_PackageLetterKept ==
    /\ result.name = "getExpectedLinkerName"
    /\ projectConfig.mcu = Str("STM32F407VGT6")
    /\ result.value = "STM32F407VGT_FLASH.ld"

---------------------------------------------------------------------------
(* Claims about the serial ports *)

\* C18: projectConfig.serialPort stays a port pattern: no step of scanPorts,
\* findAndSelectPort or smartMonitor replaces the configured value with the
\* path of a device it found.
C18_PatternNotReplaced ==
    [][lastOp'.name \in {"scanPorts", "findAndSelectPort", "smartMonitor"}
          => ~(/\ Get(projectConfig', "serialPort") # Get(projectConfig, "serialPort")
               /\ \E i \in DOMAIN devices :
                     Get(projectConfig', "serialPort") = Str(devices[i]))]_vars

\* scanPorts ran on a host with the device /dev/ttyUSB0, changed the
\* configuration and saved it, and serialPort is the path of the device in
\* projectConfig and in .stm32-config.json.
C18_DevicePathConfigured ==
    /\ lastOp.name = "scanPorts"
    /\ lastOp.changed
    /\ lastOp.saved
    /\ devices = <<"/dev/ttyUSB0">>
    /\ projectConfig.serialPort = Str("/dev/ttyUSB0")
    /\ Get(Persisted(configFile), "serialPort") = Str("/dev/ttyUSB0")

---------------------------------------------------------------------------
(* Claims about the .ioc descriptor *)

\* The descriptor key of each projectConfig field updateConfigFromIOC may
\* change.
IocKeyOf ==
    [ mcu |-> "Mcu.CPN",
      mcuFamily |-> "Mcu.Name",
      compilerLinker |-> "ProjectManager.CompilerLinker",
      stackSize |-> "ProjectManager.StackSize",
      heapSize |-> "ProjectManager.HeapSize",
      projectName |-> "ProjectManager.ProjectName",
      sysClockFreq |-> "RCC.SYSCLKFreq_VALUE" ]

\* C19: a step of loadIOCConfig, whose only change of projectConfig is that
\* of updateConfigFromIOC, changes a field only if it is one of mcu,
\* mcuFamily, compilerLinker, stackSize, heapSize, projectName and
\* sysClockFreq and the descriptor defines its key; every other field, and
\* every field whose key the descriptor lacks, keeps its value.
C19_OnlyDefinedKeysProjected ==
    [][lastOp'.name = "loadIOCConfig"
          => \A k \in DOMAIN projectConfig \cup DOMAIN projectConfig' :
                Get(projectConfig', k) # Get(projectConfig, k)
                   => /\ k \in DOMAIN IocKeyOf
                      /\ iocConfig'.loaded
                      /\ IocKeyOf[k] \in DOMAIN iocConfig'.map]_vars

\* loadIOCConfig read a descriptor that defines Mcu.Name and
\* ProjectManager.StackSize, has an empty Mcu.CPN and no
\* ProjectManager.ProjectName, and changed projectConfig: the two fields
\* have the descriptor's values, mcu and projectName those of the default
\* configuration.
C19_PartialDescriptorProjected ==
    /\ lastOp.name = "loadIOCConfig"
    /\ lastOp.changed
    /\ iocConfig.loaded
    /\ DOMAIN iocConfig.map = {"Mcu.Name", "ProjectManager.StackSize", "Mcu.CPN"}
    /\ projectConfig.mcuFamily = Str("STM32F407V(E-G)Tx")
    /\ projectConfig.stackSize = Str("0x800")
    /\ projectConfig.mcu = getDefaultConfig(currentPlatform).mcu
    /\ projectConfig.projectName = getDefaultConfig(currentPlatform).projectName

---------------------------------------------------------------------------
(* Claims about the Makefile generator on its own *)

\* C14: generate() never throws; it returns false when there is no
\* workspace or the Makefile cannot be written, and when it returns true the
\* Makefile holds the text rendered from the current projectConfig.
C14_GenerateNeverThrows ==
    lastOp.name = "generate"
        => /\ lastOp.ret \in {"true", "false"}
           /\ (workspacePath = "none" \/ disk = "read-only") => lastOp.ret = "false"
           /\ lastOp.ret = "true"
                 => /\ renders # <<>>
                    /\ renders[Len(renders)][1][5] = projectConfig
                    /\ makefile = MakefileText(renders[Len(renders)][2])

\* generate() threw for a configuration whose excludeFiles is a string.
C14_ThrewOnStringExcludes ==
    /\ lastOp.name = "generate"
    /\ lastOp.ret = "threw"
    /\ Get(projectConfig, "excludeFiles") = Str("main_test.c")
    /\ makefile = NoMakefile

\* The .c files of the workspace the Makefile is read in, relative to it.
CFiles ==
    { "Core/Src/main.c", "Core/Src/main_test.c", "Core/Src/sub/deep.c",
      "Lib/legacy.c", "Lib/util.c", "Lib/old_main_test.c", "Other/legacy.c",
      "Drivers/STM32F4xx_HAL_Driver/Src/hal.c" }

HasPrefix(s, prefix) == Len(prefix) <= Len(s) /\ SubSeq(s, 1, Len(prefix)) = prefix
HasSuffix(s, suffix) ==
    Len(suffix) <= Len(s) /\ SubSeq(s, Len(s) - Len(suffix) + 1, Len(s)) = suffix

\* What stands between a prefix and a suffix of a string.
Between(s, prefix, suffix) == SubSeq(s, Len(prefix) + 1, Len(s) - Len(suffix))

\* The words of a string, as make splits it at spaces.
RECURSIVE MakeWords(_)
MakeWords(s) ==
    LET spaces == {i \in 1..Len(s) : SubSeq(s, i, i) = " "}
    IN  IF s = "" THEN <<>>
        ELSE IF spaces = {} THEN <<s>>
        ELSE LET i == CHOOSE k \in spaces : \A j \in spaces : k <= j
                 rest == MakeWords(SubSeq(s, i + 1, Len(s)))
             IN  IF i = 1 THEN rest ELSE <<SubSeq(s, 1, i - 1)>> \o rest

\* $(wildcard dir/*.c): the .c files directly in the directory.
MakeWildcard(dir) ==
    {f \in CFiles :
        /\ HasPrefix(f, dir \o "/")
        /\ IndexOf(Chars(Between(f, dir \o "/", "")), <<"/">>) = 0}

\* A word matches a filter-out pattern: % stands for any string.
MakeMatches(word, pattern) ==
    IF HasPrefix(pattern, "%") THEN HasSuffix(word, Between(pattern, "%", ""))
    ELSE word = pattern

\* The lines of the source list of a Makefile text: what follows
\* "C_SOURCES = \" up to the first line that does not end in a backslash,
\* each without its backslash.
SourceList(text) ==
    LET i == CHOOSE k \in DOMAIN text : text[k] = "C_SOURCES = \\"
        j == CHOOSE k \in (i + 1)..Len(text) :
                 /\ ~HasSuffix(text[k], " \\")
                 /\ \A n \in (i + 1)..(k - 1) : HasSuffix(text[n], " \\")
    IN  [last |-> j,
         terms |-> SelectSeq([n \in 1..(j - i) |->
                                 IF HasSuffix(text[i + n], " \\")
                                 THEN Between(text[i + n], "", " \\")
                                 ELSE text[i + n]],
                             LAMBDA t : t # "")]

\* The directory of a $(wildcard dir/*.c) term.
TermDir(term) == Between(term, "\t$(wildcard ", "/*.c)")

\* The patterns of the filter-out rule at a line, <<>> when the line holds
\* no such rule.
FilterPatterns(line) ==
    IF HasPrefix(line, "C_SOURCES := $(filter-out ") /\ HasSuffix(line, ", $(C_SOURCES))")
    THEN MakeWords(Between(line, "C_SOURCES := $(filter-out ", ", $(C_SOURCES))"))
    ELSE <<>>

\* The value make gives C_SOURCES when it reads the text.
MakeSources(text) ==
    LET list == SourceList(text)
        found == UNION {MakeWildcard(TermDir(list.terms[n])) : n \in DOMAIN list.terms}
        rules == {n \in DOMAIN text : HasPrefix(text[n], "C_SOURCES :=")}
    IN  {f \in found :
            \A n \in rules : \A p \in DOMAIN FilterPatterns(text[n]) :
                ~MakeMatches(f, FilterPatterns(text[n])[p])}

\* C20: the text generateContent returns has one $(wildcard <dir>/*.c) term
\* per sourceDirs entry, in order; with excludeFiles it is followed by one
\* filter-out rule with a %<name> pattern per entry, which leaves in
\* C_SOURCES the .c files of the sourceDirs whose paths end in none of the
\* names; without excludeFiles there is no filter-out rule.
C20_ExcludedSourcesFiltered ==
    renders # <<>>
        => LET text == renders[Len(renders)][2]
               config == renders[Len(renders)][1][5]
               dirs == Items(config.sourceDirs)
               names == Items(config.excludeFiles)
               list == SourceList(text)
               rules == {n \in DOMAIN text : HasPrefix(text[n], "C_SOURCES :=")}
           IN  /\ list.terms = [n \in DOMAIN dirs |-> "\t$(wildcard " \o dirs[n] \o "/*.c)"]
               /\ IF names = <<>> THEN rules = {}
                  ELSE /\ rules = {list.last + 2}
                       /\ FilterPatterns(text[list.last + 2])
                             = [n \in DOMAIN names |-> "%" \o names[n]]
               /\ MakeSources(text)
                     = {f \in CFiles :
                           /\ \E n \in DOMAIN dirs : f \in MakeWildcard(dirs[n])
                           /\ \A n \in DOMAIN names : ~HasSuffix(f, names[n])}

\* generateContent rendered a Makefile for two source directories and two
\* excluded files, and make keeps the other files of the directories.
C20_TwoFilesExcluded ==
    /\ renders # <<>>
    /\ renders[Len(renders)][1][5].excludeFiles = Arr(<<"main_test.c", "Lib/legacy.c">>)
    /\ MakeSources(renders[Len(renders)][2]) = {"Lib/util.c", "Core/Src/main.c"}

---------------------------------------------------------------------------
(* Claims about the connection manager *)

\* The last testPortConnection() call got a port that testSerialPort()
\* reported accessible.
ReportedAccessible ==
    /\ result.name = "testSerialPort"
    /\ ~result.threw
    /\ Truthy(result.value)

\* C27: testPortConnection returns true exactly when testSerialPort reports
\* the target port accessible, and false when it reports the port
\* inaccessible or when no port is given or configured.
C27_TrueWhenAccessible ==
    lastOp.name = "testPortConnection" => (lastOp.ret = "true" <=> ReportedAccessible)

\* The COM port of a Windows host is present, testSerialPort resolves with
\* true and testPortConnection returns false.
C27_AccessiblePortRefused ==
    /\ lastOp.name = "testPortConnection"
    /\ currentPlatform = "win32"
    /\ result = Resolved("testSerialPort", FALSE, Bool(TRUE))
    /\ lastOp.ret = "false"

\* The poll that just resumed called the change callback.
CallbackInvoked == lastOp.name = "portPoll" /\ lastOp.events # <<>>

\* C29: the connection manager keeps at most one port polling timer, and
\* once stopPortMonitoring has returned (portMonitoringInterval is null)
\* the change callback is not called again, even by a poll that was in
\* flight.
C29_NoCallbackAfterStop ==
    /\ [](Cardinality(polling.active) <= 1)
    /\ [][polling.portMonitoringInterval = 0 => ~CallbackInvoked']_vars

\* After stopPortMonitoring cleared the only timer, the poll that was in
\* flight called the callback.
C29_CallbackFromStoppedTimer ==
    /\ CallbackInvoked
    /\ polling.portMonitoringInterval = 0
    /\ polling.active = {}
    /\ polling.timers = 1

---------------------------------------------------------------------------
(* Claims about the flash history *)

\* C26: clearFlashHistory empties flashHistory when the user answers the
\* confirmation with the Clear button, and leaves it unchanged when the
\* user cancels.
C26_ClearEmptiesHistory ==
    [][lastOp'.name = "clearFlashHistory"
          => flash'.flashHistory = IF result'.value = Str("Clear") THEN <<>>
                                   ELSE flash.flashHistory]_vars

\* The user confirmed with Clear and the history still holds its entries.
C26_HistoryKeptAfterClear ==
    /\ lastOp.name = "clearFlashHistory"
    /\ result.value = Str("Clear")
    /\ flash.flashHistory # <<>>

\* C28: after addToHistory calls that start from at most 50 entries,
\* flashHistory holds at most 50 entries, they are the most recently added
\* ones in insertion order, and with a writable workspace the history file
\* holds the same list.
C28_LastFiftyKept ==
    LET history == flash.flashHistory
        kept == IF Len(flash.all) < HistoryLimit THEN Len(flash.all) ELSE HistoryLimit
    IN  /\ Len(history) = kept
        /\ \A i \in 1..kept : history[i] = flash.all[Len(flash.all) - kept + i]
        /\ (lastOp.name = "addToHistory" /\ workspacePath = "ws" /\ disk = "writable")
                => flash.file = HistoryFile(history)

\* A fifty-second entry was added: the oldest two are gone, the file holds
\* the fifty that are left.
C28_OldestEntriesDropped ==
    /\ lastOp.name = "addToHistory"
    /\ Len(flash.all) = HistoryLimit + 2
    /\ Len(flash.flashHistory) = HistoryLimit
    /\ flash.flashHistory[1] = flash.all[3]
    /\ flash.file = HistoryFile(flash.flashHistory)

---------------------------------------------------------------------------
(* Claims about flashing *)

\* The events of the flash call in flight, or of the last one.
FlashEvents == flash.call.events

IsWrite(event) == event \in {"write hex", "write bin"}

\* Event i of the call comes after a build that returned true, a firmware
\* file, an existing programmer and the user's confirmation, in that order.
Prepared(i) ==
    /\ i > 4
    /\ FlashEvents[1] = "build true"
    /\ FlashEvents[2] \in {"firmware hex", "firmware bin"}
    /\ FlashEvents[3] = "programmer"
    /\ FlashEvents[4] = "confirmed"

EraseConfirmed == result.value[1] = Str("Erase") /\ result.value[2] = Bool(TRUE)

\* C25: eraseFlash runs the full-erase command if and only if the user
\* confirms the warning with the Erase button and the programmer binary
\* exists; it returns true when the command succeeds and false when the
\* user cancels or the command fails.
C25_ErasesWhenConfirmed ==
    lastOp.name = "eraseFlash"
        => /\ lastOp.events = <<"erase all">> <=> EraseConfirmed
           /\ lastOp.ret = "true" <=> (EraseConfirmed /\ result.value[3] = Bool(TRUE))

\* The user confirmed with Erase, the programmer exists and its command
\* would succeed: nothing was run and eraseFlash returned false.
C25_ConfirmedEraseNotRun ==
    /\ lastOp.name = "eraseFlash"
    /\ result.value = <<Str("Erase"), Bool(TRUE), Bool(TRUE)>>
    /\ lastOp.events = <<>>
    /\ lastOp.ret = "false"

---------------------------------------------------------------------------
(* Claims about the monitor *)

\* A monitor runs in a terminal that is still open.
MonitorOpen ==
    /\ monitor.isMonitoring
    /\ monitor.monitorTerminal \in monitor.open

\* C23: isMonitoring and monitorTerminal describe the most recently started
\* monitor terminal: a close event for an earlier monitor terminal, such as
\* the one stopMonitor disposed before a restart, never clears them for a
\* monitor that was started afterwards and is still open.
C23_EarlierCloseKeepsMonitor ==
    [][(/\ lastOp'.name = "didCloseTerminal"
        /\ MonitorOpen
        /\ result'.value[1] < monitor.monitorTerminal)
           => /\ monitor'.isMonitoring
              /\ monitor'.monitorTerminal = monitor.monitorTerminal]_vars

\* The close event of the first terminal arrived after the second monitor
\* was started: the second terminal is open, on the port it was started
\* for, and the manager holds no monitor.
C23_RunningMonitorForgotten ==
    /\ lastOp.name = "didCloseTerminal"
    /\ result.value = <<1>>
    /\ monitor.open = {2}
    /\ monitor.currentPort # Null
    /\ ~monitor.isMonitoring
    /\ monitor.monitorTerminal = 0

=============================================================================
